---- MODULE Spec2Model ----
(***************************************************************************)
(* Personalized buy-probability + absorbing-Markov waste estimator of      *)
(* backend/utils/markov_waste_estimator.py, with the fallback tables of    *)
(* backend/utils/waste_impact.py.                                          *)
(*                                                                         *)
(* Python floats are modelled as exact rationals [num, den] in lowest    *)
(* terms with den > 0: the model states what the arithmetic of the code    *)
(* computes over the reals, without the rounding of IEEE doubles.  The     *)
(* exponent of the discount curve is restricted to positive integers so    *)
(* that freshness ** power stays rational.                                 *)
(***************************************************************************)
EXTENDS Integers, Sequences, FiniteSets, TLC

(***************************************************************************)
(* Rational arithmetic (the float operators of the code).                  *)
(***************************************************************************)
Abs(x) == IF x < 0 THEN -x ELSE x

RECURSIVE GCD(_, _)
GCD(a, b) == IF b = 0 THEN a ELSE GCD(b, a % b)

\* the rational n/d in lowest terms, d # 0
Rat(n, d) ==
    LET g == GCD(Abs(n), Abs(d))
        s == IF d < 0 THEN -1 ELSE 1
    IN  [num |-> s * (n \div g), den |-> s * (d \div g)]

RInt(n) == [num |-> n, den |-> 1]

LCM(a, b) == (a \div GCD(a, b)) * b

RAdd(x, y) ==
    LET l == LCM(x.den, y.den)
    IN  Rat(x.num * (l \div x.den) + y.num * (l \div y.den), l)

RNeg(x) == [num |-> -x.num, den |-> x.den]

RSub(x, y) == RAdd(x, RNeg(y))

\* cross-cancel before multiplying to keep the products small
RMul(x, y) ==
    LET g1 == GCD(Abs(x.num), y.den)
        g2 == GCD(Abs(y.num), x.den)
    IN  IF x.num = 0 \/ y.num = 0 THEN [num |-> 0, den |-> 1]
        ELSE [num |-> (x.num \div g1) * (y.num \div g2),
              den |-> (x.den \div g2) * (y.den \div g1)]

\* y # 0
RDiv(x, y) == RMul(x, Rat(y.den, y.num))

\* floor of a rational
RFloor(x) == x.num \div x.den

\* x <= y, by comparing the continued-fraction expansions (no products)
RECURSIVE RLe(_, _)
RLe(x, y) ==
    LET qx == x.num \div x.den
        qy == y.num \div y.den
        rx == x.num % x.den
        ry == y.num % y.den
    IN  IF qx # qy THEN qx < qy
        ELSE IF rx = 0 THEN TRUE
        ELSE IF ry = 0 THEN FALSE
        ELSE RLe([num |-> y.den, den |-> ry], [num |-> x.den, den |-> rx])

RLt(x, y) == RLe(x, y) /\ x # y

RMax(x, y) == IF RLe(x, y) THEN y ELSE x

RMin(x, y) == IF RLe(x, y) THEN x ELSE y

\* x ** p for an integer p >= 0
RECURSIVE RPow(_, _)
RPow(x, p) == IF p = 0 THEN [num |-> 1, den |-> 1] ELSE RMul(x, RPow(x, p - 1))

Zero == [num |-> 0, den |-> 1]
One == [num |-> 1, den |-> 1]

\* Python's None (a NULL column, a missing row, an omitted argument)
None == [none |-> TRUE]

\* the outcome of a call: a returned value or a raised exception
Ret(v) == [raised |-> "no", val |-> v]
Raise(e) == [raised |-> e, val |-> None]

(***************************************************************************)
(* calculate_discount_from_freshness                                       *)
(***************************************************************************)
\* mutant: max_discount * freshness ** power, the discount growing with freshness
calculate_discount_from_freshness_rising(freshness_score, max_discount, power) ==
    IF ~(RLe(Zero, freshness_score) /\ RLe(freshness_score, One))
    THEN Raise("ValueError")
    ELSE LET md == IF RLt(One, max_discount)
                   THEN RDiv(max_discount, RInt(100))
                   ELSE max_discount
             discount == RMul(md, RPow(freshness_score, power))
         IN  Ret(RMax(Zero, RMin(md, discount)))

\* mutant: a max_discount above 1 is not divided by 100
calculate_discount_from_freshness_raw(freshness_score, max_discount, power) ==
    IF ~(RLe(Zero, freshness_score) /\ RLe(freshness_score, One))
    THEN Raise("ValueError")
    ELSE LET discount == RMul(max_discount, RSub(One, RPow(freshness_score, power)))
         IN  Ret(RMax(Zero, RMin(max_discount, discount)))

\* mutant: only the upper end of the freshness range is checked
calculate_discount_from_freshness_upper_only(freshness_score, max_discount, power) ==
    IF RLt(One, freshness_score)
    THEN Raise("ValueError")
    ELSE LET md == IF RLt(One, max_discount)
                   THEN RDiv(max_discount, RInt(100))
                   ELSE max_discount
             discount == RMul(md, RSub(One, RPow(freshness_score, power)))
         IN  Ret(RMax(Zero, RMin(md, discount)))

calculate_discount_from_freshness(freshness_score, max_discount, power) ==
    IF ~(RLe(Zero, freshness_score) /\ RLe(freshness_score, One))
    THEN Raise("ValueError")
    ELSE LET md == IF RLt(One, max_discount)
                   THEN RDiv(max_discount, RInt(100))
                   ELSE max_discount
             discount == RMul(md, RSub(One, RPow(freshness_score, power)))
         IN  Ret(RMax(Zero, RMin(md, discount)))

(***************************************************************************)
(* State.  The stores are the database tables the estimator reads; it      *)
(* never writes them.  `call` is the record of the last top-level call     *)
(* (its arguments, the locals the claims speak of, its outcome); the       *)
(* remaining variables are the locals of compute_aggregate_impact.         *)
(***************************************************************************)
VARIABLES
    MODELS_AVAILABLE,      \* the module flag set by the import of models
    price_curves,          \* PriceCurve: category -> row or None
    user_stats,            \* UserDiscountStat: sequence of rows
    product_lca,           \* ProductLCA: product_name -> row or None
    inventory,             \* FruitInventory: sequence of rows, id = index
    customers,             \* Customer: sequence of ids
    waste_impact_ok,       \* whether `from utils.waste_impact import ...` succeeds
    call,                  \* the last completed top-level call
    agg_pc,                \* position in compute_aggregate_impact
    agg_args,              \* its arguments after defaulting
    inventory_items,       \* the rows its query returned (ids)
    agg_i,                 \* index of the next item of the loop
    total_units_saved,
    total_co2e_saved,
    total_revenue,
    total_waste_saved_kg,
    items_processed,
    items_with_units,
    last_item,             \* what the last iteration of the loop did
    result,                \* the dictionary it returns, or None
    unit,                  \* a unit walking the chain of sold_prob_markov, or None
    solve                  \* an estimate_units_saved call followed row by row, or None

stores == <<MODELS_AVAILABLE, price_curves, user_stats, product_lca, inventory,
            customers, waste_impact_ok>>

agg_vars == <<agg_pc, agg_args, inventory_items, agg_i, total_units_saved,
              total_co2e_saved, total_revenue, total_waste_saved_kg,
              items_processed, items_with_units, last_item, result>>

walks == <<unit, solve>>

vars == <<stores, call, agg_vars, walks>>

(***************************************************************************)
(* p_buy_pop_interp                                                        *)
(***************************************************************************)
\* min(0.9, 0.05 + (discount_pct / 100.0) * 0.85)
linear_fallback(discount_pct) ==
    RMin(Rat(9, 10),
         RAdd(Rat(1, 20), RMul(RDiv(discount_pct, RInt(100)), Rat(17, 20))))

\* numpy's search: the last index j with xp[j] <= x, 0 when there is none
interp_index(x, xp) ==
    LET below == {j \in 1..Len(xp) : RLe(xp[j], x)}
    IN  IF below = {} THEN 0 ELSE CHOOSE j \in below : \A i \in below : i <= j

\* mutant: a step function, the value of the control point at or below x
np_interp_step(x, xp, fp, left, right) ==
    IF RLt(x, xp[1]) THEN left
    ELSE IF RLt(xp[Len(xp)], x) THEN right
    ELSE fp[interp_index(x, xp)]

\* np.interp(x, xp, fp, left, right) for one point x and ascending xp
np_interp(x, xp, fp, left, right) ==
    LET n == Len(xp)
        j == interp_index(x, xp)
    IN  IF RLt(x, xp[1]) THEN left
        ELSE IF RLt(xp[n], x) THEN right
        ELSE IF j = n THEN fp[j]
        ELSE IF xp[j] = x THEN fp[j]
        ELSE LET slope == RDiv(RSub(fp[j + 1], fp[j]), RSub(xp[j + 1], xp[j]))
             IN  RAdd(RMul(slope, RSub(x, xp[j])), fp[j])

\* Python truthiness of a list column: the empty list is falsy
Falsy(list) == list = <<>>

\* mutant: the linear approximation for a malformed curve too
p_buy_pop_interp_linear(discount_pct, category) ==
    IF ~MODELS_AVAILABLE \/ price_curves[category] = None
    THEN linear_fallback(discount_pct)
    ELSE IF \/ Falsy(price_curves[category].x_discount_bins)
            \/ Falsy(price_curves[category].y_pbuy)
            \/ Len(price_curves[category].x_discount_bins)
                   # Len(price_curves[category].y_pbuy)
         THEN linear_fallback(discount_pct)
         ELSE np_interp(discount_pct, price_curves[category].x_discount_bins,
                        price_curves[category].y_pbuy,
                        price_curves[category].y_pbuy[1],
                        price_curves[category].y_pbuy[
                            Len(price_curves[category].y_pbuy)])

\* mutant: the boundary probabilities of np.interp exchanged
p_buy_pop_interp_swapped_ends(discount_pct, category) ==
    IF ~MODELS_AVAILABLE \/ price_curves[category] = None
    THEN linear_fallback(discount_pct)
    ELSE IF \/ Falsy(price_curves[category].x_discount_bins)
            \/ Falsy(price_curves[category].y_pbuy)
            \/ Len(price_curves[category].x_discount_bins)
                   # Len(price_curves[category].y_pbuy)
         THEN Rat(1, 20)
         ELSE np_interp(discount_pct, price_curves[category].x_discount_bins,
                        price_curves[category].y_pbuy,
                        price_curves[category].y_pbuy[
                            Len(price_curves[category].y_pbuy)],
                        price_curves[category].y_pbuy[1])

p_buy_pop_interp(discount_pct, category) ==
    IF ~MODELS_AVAILABLE THEN linear_fallback(discount_pct)
    ELSE LET price_curve == price_curves[category]
         IN  IF price_curve = None THEN linear_fallback(discount_pct)
             ELSE LET bins == price_curve.x_discount_bins
                      probs == price_curve.y_pbuy
                  IN  IF Falsy(bins) \/ Falsy(probs) \/ Len(bins) # Len(probs)
                      THEN Rat(1, 20)
                      ELSE np_interp(discount_pct, bins, probs,
                                     probs[1], probs[Len(probs)])

(***************************************************************************)
(* p_buy_user_beta                                                         *)
(***************************************************************************)
\* [r for r in user_stats if r.bin_low <= discount_pct < r.bin_high]
\* mutant: a bin closed at its upper bound
bin_matches_closed(r, discount_pct) ==
    RLe(r.bin_low, discount_pct) /\ RLe(discount_pct, r.bin_high)

bin_matches(r, discount_pct) ==
    RLe(r.bin_low, discount_pct) /\ RLt(discount_pct, r.bin_high)

\* mutant: only the first matching bin
matching_rows_first(user_id, product_name, discount_pct) ==
    LET rows == SelectSeq(user_stats,
                          LAMBDA r : /\ r.user_id = user_id
                                     /\ r.product_name = product_name
                                     /\ bin_matches(r, discount_pct))
    IN  IF rows = <<>> THEN rows ELSE <<Head(rows)>>

matching_rows(user_id, product_name, discount_pct) ==
    SelectSeq(user_stats,
              LAMBDA r : /\ r.user_id = user_id
                         /\ r.product_name = product_name
                         /\ bin_matches(r, discount_pct))

RECURSIVE sum_trials(_)
sum_trials(rows) ==
    IF rows = <<>> THEN 0 ELSE Head(rows).trials + sum_trials(Tail(rows))

RECURSIVE sum_buys(_)
sum_buys(rows) ==
    IF rows = <<>> THEN 0 ELSE Head(rows).buys + sum_buys(Tail(rows))

\* mutant: the raw frequency buys / trials
posterior_raw(trials, buys) ==
    IF trials = 0 THEN <<Zero, 0>> ELSE <<Rat(buys, trials), trials>>

\* the Beta posterior mean (buys + 1) / (trials + 2), or (0.0, 0)
posterior(trials, buys) ==
    IF trials = 0 THEN <<Zero, 0>> ELSE <<Rat(buys + 1, trials + 2), trials>>

\* returns the pair <<probability, total_trials>>
p_buy_user_beta(user_id, product_name, discount_pct) ==
    IF ~MODELS_AVAILABLE THEN <<Zero, 0>>
    ELSE posterior(sum_trials(matching_rows(user_id, product_name, discount_pct)),
                   sum_buys(matching_rows(user_id, product_name, discount_pct)))

(***************************************************************************)
(* p_buy_blend                                                             *)
(***************************************************************************)
\* the default of the blending parameter m
credibility_m == 15

\* mutant: w = m / (n + m)
blend_weight_inverted(n, m) == Rat(m, n + m)

\* w = n / (n + m)
blend_weight(n, m) == Rat(n, n + m)

\* mutant: the weight put on the population probability
blend_swapped(p_pop, p_user, n, m) ==
    IF n = 0 THEN p_pop
    ELSE RAdd(RMul(blend_weight(n, m), p_pop),
              RMul(RSub(One, blend_weight(n, m)), p_user))

\* the return statements of p_buy_blend
blend(p_pop, p_user, n, m) ==
    IF n = 0 THEN p_pop
    ELSE RAdd(RMul(blend_weight(n, m), p_user),
              RMul(RSub(One, blend_weight(n, m)), p_pop))

blend_pair(p_pop, pn, m) == blend(p_pop, pn[1], pn[2], m)

p_buy_blend(user_id, product_name, category, discount_pct, m) ==
    blend_pair(p_buy_pop_interp(discount_pct, category),
               p_buy_user_beta(user_id, product_name, discount_pct), m)

(***************************************************************************)
(* sold_prob_markov                                                        *)
(***************************************************************************)
\* the discount and the blended buy probability of bucket k of K
\* mutant: the freshness at the end of the bucket, 1 - k / K
bucket_freshness_end(k, K) == RSub(One, Rat(k, K))

bucket_freshness(k, K) == RSub(One, Rat(k - 1, K))

bucket_discount_pct(k, K, dmax, alpha) ==
    RMul(calculate_discount_from_freshness(bucket_freshness(k, K), dmax, alpha).val,
         RInt(100))

bucket_prob(k, K, dmax, alpha, user_id, product_name, category) ==
    p_buy_blend(user_id, product_name, category,
                bucket_discount_pct(k, K, dmax, alpha), credibility_m)

\* mutant: Q[k - 1, k - 2] = 1 - p, an unsold unit moving to the fresher bucket
Q_matrix_backwards(ps, K) ==
    [i \in 1..K, j \in 1..K |-> IF j = i - 1 THEN RSub(One, ps[i]) ELSE Zero]

\* mutant: Q[k - 1, k - 1] = 1 - p, a bucket that keeps its unsold units
Q_matrix_self_loop(ps, K) ==
    [i \in 1..K, j \in 1..K |-> IF j = i /\ i < K THEN RSub(One, ps[i]) ELSE Zero]

\* Q[k - 1, k] = 1 - p for k < K, every other entry stays 0
Q_matrix(ps, K) ==
    [i \in 1..K, j \in 1..K |-> IF j = i + 1 THEN RSub(One, ps[i]) ELSE Zero]

\* mutant: the Sold column filled with 1 - p, the Spoiled column with p
R_matrix_swapped(ps, K) ==
    [i \in 1..K, c \in 1..2 |->
        IF c = 1 THEN RSub(One, ps[i])
        ELSE IF i = K THEN ps[i] ELSE Zero]

\* R[k - 1, 0] = p; R[K - 1, 1] = 1 - p for the last bucket
R_matrix(ps, K) ==
    [i \in 1..K, c \in 1..2 |->
        IF c = 1 THEN ps[i]
        ELSE IF i = K THEN RSub(One, ps[i]) ELSE Zero]

\* I - Q
I_minus_Q(Q, K) ==
    [i \in 1..K, j \in 1..K |-> RSub(IF i = j THEN One ELSE Zero, Q[i, j])]

RECURSIVE RSum(_, _, _)
\* the sum of f[l] for l = lo..hi
RSum(f, lo, hi) == IF lo > hi THEN Zero ELSE RAdd(f[lo], RSum(f, lo + 1, hi))

\* np.linalg.inv of the upper-triangular matrix A, by back substitution;
\* LinAlgError when a pivot is zero
is_singular(A, K) == \E i \in 1..K : A[i, i] = Zero

\* mutant: back substitution without the sign of the off-diagonal terms
RECURSIVE inv_entry_unsigned(_, _, _, _)
inv_entry_unsigned(A, K, i, j) ==
    IF j < i THEN Zero
    ELSE IF j = i THEN RDiv(One, A[i, i])
    ELSE RDiv(RSum([l \in (i + 1)..j |->
                       RMul(A[i, l], inv_entry_unsigned(A, K, l, j))], i + 1, j),
              A[i, i])

RECURSIVE inv_entry(_, _, _, _)
inv_entry(A, K, i, j) ==
    IF j < i THEN Zero
    ELSE IF j = i THEN RDiv(One, A[i, i])
    ELSE RDiv(RNeg(RSum([l \in (i + 1)..j |->
                            RMul(A[i, l], inv_entry(A, K, l, j))], i + 1, j)),
              A[i, i])

linalg_inv(A, K) == [i \in 1..K, j \in 1..K |-> inv_entry(A, K, i, j)]

\* B = N @ R
absorbing_probs(N, R, K) ==
    [i \in 1..K, c \in 1..2 |->
        RSum([l \in 1..K |-> RMul(N[i, l], R[l, c])], 1, K)]

\* mutant: the bucket without the cap at K
start_bucket_uncapped(freshness, K) ==
    LET clamped == RMax(Zero, RMin(One, freshness))
    IN  RFloor(RMul(RSub(One, clamped), RInt(K))) + 1

\* k0 = min(int((1 - clamp(freshness)) * K) + 1, K)
start_bucket(freshness, K) ==
    LET clamped == RMax(Zero, RMin(One, freshness))
        k0 == RFloor(RMul(RSub(One, clamped), RInt(K))) + 1
    IN  IF k0 <= K THEN k0 ELSE K

\* N = inv(I - Q), B = N @ R, return B[k0 - 1, 0]; 0.0 on LinAlgError
solve_chain(A, R, K, k0) ==
    IF is_singular(A, K) THEN Ret(Zero)
    ELSE IF ~(-K <= k0 - 1 /\ k0 - 1 < K)
         THEN Raise("IndexError")             \* B has K rows
         ELSE Ret(absorbing_probs(linalg_inv(A, K), R, K)[k0, 1])

\* the chain of the per-bucket probabilities ps
chain_of(ps, K, k0) == solve_chain(I_minus_Q(Q_matrix(ps, K), K), R_matrix(ps, K), K, k0)

sold_prob_markov(freshness, dmax, alpha, K, user_id, product_name, category) ==
    IF K < 0 THEN Raise("ValueError")         \* np.zeros((K, K))
    ELSE chain_of([k \in 1..K |->
                      bucket_prob(k, K, dmax, alpha, user_id, product_name, category)],
                  K, start_bucket(freshness, K))

(***************************************************************************)
(* estimate_units_saved                                                    *)
(***************************************************************************)
\* the default of K (48 in the code, scaled down to keep the chain small)
DefaultK == 2

\* FruitInventory.query.get(lot_id)
get_lot(lot_id) ==
    IF lot_id \in 1..Len(inventory) THEN inventory[lot_id] ELSE None

\* mutant: the rescaled score without the clamp to [0, 1]
current_freshness_unclamped(inventory_item) ==
    IF inventory_item.freshness # None
    THEN IF inventory_item.freshness.freshness_score = None THEN Raise("TypeError")
         ELSE IF RLt(One, inventory_item.freshness.freshness_score)
              THEN Ret(RDiv(inventory_item.freshness.freshness_score, RInt(100)))
              ELSE Ret(inventory_item.freshness.freshness_score)
    ELSE Ret(One)

\* the freshness handed to sold_prob_markov; TypeError on a NULL score
current_freshness_of(inventory_item) ==
    IF inventory_item.freshness # None
    THEN LET freshness_score == inventory_item.freshness.freshness_score
         IN  IF freshness_score = None THEN Raise("TypeError")
             ELSE LET scaled == IF RLt(One, freshness_score)
                                THEN RDiv(freshness_score, RInt(100))
                                ELSE freshness_score
                  IN  Ret(RMax(Zero, RMin(One, scaled)))
    ELSE Ret(One)

\* mutant: the difference without the clamp at zero
units_from_probs_unclamped(quantity, ps_dyn, ps_base) ==
    RMul(RInt(quantity), RSub(ps_dyn, ps_base))

\* mutant: the two sale probabilities added instead of subtracted
units_from_probs_sum(quantity, ps_dyn, ps_base) ==
    RMax(Zero, RMul(RInt(quantity), RAdd(ps_dyn, ps_base)))

\* max(0.0, inventory_item.quantity * (ps_dyn - ps_base))
units_from_probs(quantity, ps_dyn, ps_base) ==
    RMax(Zero, RMul(RInt(quantity), RSub(ps_dyn, ps_base)))

\* the outcome of the call from the outcomes of its two chain solves
units_outcome(quantity, ps_dyn, ps_base) ==
    IF ps_dyn.raised # "no" THEN ps_dyn
    ELSE IF ps_base.raised # "no" THEN ps_base
    ELSE Ret(units_from_probs(quantity, ps_dyn.val, ps_base.val))

\* the locals of one call: current_freshness, ps_dyn, ps_base and the outcome
units_locals(fr, ps_dyn, ps_base, out) ==
    [current_freshness |-> fr, ps_dyn |-> ps_dyn, ps_base |-> ps_base, out |-> out]

units_solved(inventory_item, fr, ps_dyn, ps_base) ==
    units_locals(fr, ps_dyn, ps_base,
                 units_outcome(inventory_item.quantity, ps_dyn, ps_base))

units_with_freshness(inventory_item, fr, baseline_params, dynamic_params, user_id, K) ==
    IF fr.raised # "no" THEN units_locals(fr, None, None, fr)
    ELSE units_solved(inventory_item, fr,
             sold_prob_markov(fr.val, dynamic_params.dmax, dynamic_params.alpha, K,
                              user_id, inventory_item.fruit_type,
                              inventory_item.fruit_type),
             sold_prob_markov(fr.val, baseline_params.dmax, baseline_params.alpha, K,
                              user_id, inventory_item.fruit_type,
                              inventory_item.fruit_type))

units_of_item(inventory_item, baseline_params, dynamic_params, user_id, K) ==
    IF inventory_item = None THEN units_locals(None, None, None, Ret(Zero))
    ELSE units_with_freshness(inventory_item, current_freshness_of(inventory_item),
                              baseline_params, dynamic_params, user_id, K)

\* estimate_units_saved with its locals
estimate_units_saved_locals(lot_id, baseline_params, dynamic_params, user_id, K) ==
    IF ~MODELS_AVAILABLE THEN units_locals(None, None, None, Ret(Zero))
    ELSE units_of_item(get_lot(lot_id), baseline_params, dynamic_params, user_id, K)

estimate_units_saved(lot_id, baseline_params, dynamic_params, user_id, K) ==
    estimate_units_saved_locals(lot_id, baseline_params, dynamic_params, user_id, K).out

(***************************************************************************)
(* utils.waste_impact: the fallback tables                                 *)
(***************************************************************************)
\* str.lower() on the product names of the model
lower(fruit_type) == IF fruit_type = "Apple" THEN "apple" ELSE fruit_type

\* mutant: the table is read with the name as stored, not lower-cased
get_emission_factor_as_stored(fruit_type) ==
    IF fruit_type = "apple" THEN Rat(43, 100) ELSE Rat(45, 100)

\* CO2_EMISSION_FACTORS.get(fruit_type.lower(), CO2_EMISSION_FACTORS['default'])
get_emission_factor(fruit_type) ==
    IF lower(fruit_type) = "apple" THEN Rat(43, 100) ELSE Rat(45, 100)

\* AVERAGE_WEIGHT_PER_UNIT.get(fruit_type.lower(), AVERAGE_WEIGHT_PER_UNIT['default'])
get_average_weight(fruit_type) ==
    IF lower(fruit_type) = "apple" THEN Rat(18, 100) ELSE Rat(15, 100)

calculate_weight_from_quantity(fruit_type, quantity) ==
    RMul(quantity, get_average_weight(fruit_type))

(***************************************************************************)
(* estimate_co2e_saved, estimate_additional_revenue_generated              *)
(***************************************************************************)
\* mutant: the disposal factor inside the product
\* displacement * mass_kg * (ef_prod + ef_disposal)
estimate_co2e_saved_misplaced(units_saved, product_name) ==
    IF ~MODELS_AVAILABLE \/ RLe(units_saved, Zero) THEN Ret(Zero)
    ELSE IF product_lca[product_name] = None
         THEN IF ~waste_impact_ok THEN Raise("ImportError")
              ELSE Ret(RMul(units_saved,
                            RMul(get_average_weight(product_name),
                                 get_emission_factor(product_name))))
         ELSE IF \/ product_lca[product_name].displacement = None
                 \/ product_lca[product_name].mass_kg = None
                 \/ product_lca[product_name].ef_prod_kgco2e_perkg = None
                 \/ product_lca[product_name].ef_disposal_kgco2e_perunit = None
              THEN Raise("TypeError")
              ELSE Ret(RMul(units_saved,
                            RMul(RMul(product_lca[product_name].displacement,
                                      product_lca[product_name].mass_kg),
                                 RAdd(product_lca[product_name].ef_prod_kgco2e_perkg,
                                      product_lca[product_name]
                                          .ef_disposal_kgco2e_perunit))))

estimate_co2e_saved(units_saved, product_name) ==
    IF ~MODELS_AVAILABLE \/ RLe(units_saved, Zero) THEN Ret(Zero)
    ELSE LET lca == product_lca[product_name]
         IN  IF lca = None
             THEN IF ~waste_impact_ok THEN Raise("ImportError")
                  ELSE Ret(RMul(units_saved,
                                RMul(get_average_weight(product_name),
                                     get_emission_factor(product_name))))
             ELSE IF \/ lca.displacement = None
                     \/ lca.mass_kg = None
                     \/ lca.ef_prod_kgco2e_perkg = None
                     \/ lca.ef_disposal_kgco2e_perunit = None
                  THEN Raise("TypeError")
                  ELSE Ret(RMul(units_saved,
                                RAdd(RMul(RMul(lca.displacement, lca.mass_kg),
                                          lca.ef_prod_kgco2e_perkg),
                                     lca.ef_disposal_kgco2e_perunit)))

\* TypeError on a NULL price
estimate_additional_revenue_generated(units_saved, product_name, avg_price_per_unit) ==
    IF avg_price_per_unit = None THEN Raise("TypeError")
    ELSE Ret(RMul(units_saved, avg_price_per_unit))

\* mutant: always the current price
price_of_current(item) ==
    IF item.current_price = None THEN Raise("TypeError")
    ELSE Ret(item.current_price)

\* item.current_price if item.current_price > 0 else item.original_price
price_of(item) ==
    IF item.current_price = None THEN Raise("TypeError")
    ELSE IF RLt(Zero, item.current_price) THEN Ret(item.current_price)
    ELSE Ret(item.original_price)

\* mutant: truncation to hundredths
round_2_truncated(x) == Rat(RFloor(RMul(x, RInt(100))), 100)

\* round(x, 2): to the nearest hundredth, ties to even
round_2(x) ==
    LET y == RMul(x, RInt(100))
        f == RFloor(y)
        frac == RSub(y, RInt(f))
        half == Rat(1, 2)
        n == IF RLt(frac, half) THEN f
             ELSE IF RLt(half, frac) THEN f + 1
             ELSE IF f % 2 = 0 THEN f ELSE f + 1
    IN  Rat(n, 100)

(***************************************************************************)
(* The values the stores and the arguments are drawn from.                 *)
(***************************************************************************)
\* the largest bucket count K of a direct call
MaxK == 2

Users == {1, 2}
ProductNames == {"apple", "Apple", "kiwi"}
CallProducts == {"apple", "kiwi"}

Curve(bins, probs) == [x_discount_bins |-> bins, y_pbuy |-> probs]

\* the seeded shape of a curve: [(0, 0.05), (50, 0.75), (75, 0.90)]
CurveStd == Curve(<<RInt(0), RInt(50), RInt(75)>>, <<Rat(1, 20), Rat(3, 4), Rat(9, 10)>>)
\* a curve whose first bin lies above discount 0
CurveInner == Curve(<<RInt(25), RInt(50)>>, <<Rat(1, 4), Rat(3, 4)>>)
\* a curve with a repeated bin
CurveDup == Curve(<<RInt(0), RInt(50), RInt(50), RInt(75)>>,
                  <<Rat(1, 20), Rat(1, 2), Rat(3, 4), Rat(9, 10)>>)
\* buy probability falling with the discount
CurveDec == Curve(<<RInt(0), RInt(50), RInt(75)>>, <<Rat(9, 10), Rat(1, 2), Rat(1, 10)>>)
\* malformed rows
CurveEmpty == Curve(<<>>, <<>>)
CurveMismatch == Curve(<<RInt(0), RInt(50)>>, <<Rat(1, 20)>>)

CurveRows == {None, CurveStd, CurveInner, CurveDup, CurveDec, CurveEmpty, CurveMismatch}

CurveStores ==
    {[c \in ProductNames |-> IF c = "apple" THEN row ELSE None] : row \in CurveRows}

Stat(u, prod, lo, hi, t, b) ==
    [user_id |-> u, product_name |-> prod, bin_low |-> RInt(lo), bin_high |-> RInt(hi),
     trials |-> t, buys |-> b]

OneStat == << Stat(1, "apple", 0, 50, 10, 5) >>

StatStores ==
    { <<>>,
      OneStat,
      << Stat(1, "apple", 0, 25, 7, 5), Stat(1, "apple", 0, 50, 3, 0),
         Stat(1, "apple", 50, 75, 0, 0), Stat(1, "apple", 75, 101, 15, 15),
         Stat(2, "apple", 0, 101, 30, 23) >> }

Lca(d, m, p, u) ==
    [displacement |-> d, mass_kg |-> m, ef_prod_kgco2e_perkg |-> p,
     ef_disposal_kgco2e_perunit |-> u]

AppleLca == Lca(One, Rat(1, 5), Rat(1, 2), Rat(1, 10))

Lot(ft, q, fr, cp, op, st) ==
    [fruit_type |-> ft, quantity |-> q, freshness |-> fr, current_price |-> cp,
     original_price |-> op, store_id |-> st]

Fresh(score) == [freshness_score |-> score]

\* inventory, product_lca, customers and the import of utils.waste_impact
World(inv, lca, cust, ok) ==
    [inventory |-> inv, product_lca |-> lca, customers |-> cust, waste_impact_ok |-> ok]

NoLca == [c \in ProductNames |-> None]

\* sound data, lifecycle factors for apple only
WorldSound ==
    World(<< Lot("apple", 10, Fresh(Rat(1, 2)), RInt(2), RInt(3), 1),
             Lot("kiwi", 4, Fresh(RInt(50)), Zero, RInt(5), 2),
             Lot("apple", 0, Fresh(Zero), RInt(2), RInt(3), 1) >>,
          [NoLca EXCEPT !["apple"] = AppleLca], <<1, 2>>, TRUE)

\* NULL columns, no lifecycle factors
WorldNulls ==
    World(<< Lot("apple", 10, Fresh(None), RInt(2), RInt(3), 1),
             Lot("kiwi", 4, Fresh(Zero), None, RInt(5), 1),
             Lot("Apple", 2, None, RInt(1), RInt(1), 2) >>,
          NoLca, <<2>>, TRUE)

\* utils.waste_impact cannot be imported
WorldNoImport ==
    World(<< Lot("apple", 10, Fresh(Rat(1, 5)), RInt(2), RInt(3), 1),
             Lot("kiwi", 4, Fresh(RInt(150)), RInt(1), RInt(5), 1),
             Lot("Apple", 3, Fresh(RInt(-1)), RInt(1), RInt(1), 1) >>,
          [NoLca EXCEPT !["apple"] = AppleLca,
                        !["Apple"] = Lca(One, None, Rat(1, 2), Rat(1, 10))],
          <<1>>, FALSE)

\* empty tables
WorldEmpty == World(<<>>, NoLca, <<>>, TRUE)

NoCurves == [c \in ProductNames |-> None]
StdCurves == [NoCurves EXCEPT !["apple"] = CurveStd]

Scenario(w, curves, stats) == [world |-> w, price_curves |-> curves, user_stats |-> stats]

\* the contents of the tables at start: every curve and statistics table with
\* the sound inventory, the other inventories with the seeded curve or none
Scenarios ==
    {Scenario(WorldSound, c, st) : c \in CurveStores, st \in StatStores}
    \cup {Scenario(w, c, st) : w \in {WorldNulls, WorldNoImport, WorldEmpty},
                               c \in {NoCurves, StdCurves}, st \in {<<>>, OneStat}}

DiscountPcts == {RInt(0), RInt(10), RInt(25), RInt(50), RInt(60), RInt(75), RInt(100)}
FreshnessArgs == {Rat(-1, 2), Zero, Rat(1, 2), One, Rat(3, 2)}
ChainFreshness == {Zero, Rat(1, 5), Rat(1, 2), One}
MaxDiscounts == {Zero, Rat(3, 4), One, RInt(50)}
Powers == {1, 2}

Policy(dmax, alpha) == [dmax |-> dmax, alpha |-> alpha]
NoDiscount == Policy(Zero, 1)
Policies == {NoDiscount, Policy(Rat(3, 4), 2), Policy(One, 1), Policy(RInt(50), 1)}
Pair(b, d) == [baseline_params |-> b, dynamic_params |-> d]
PolicyPairs ==
    { Pair(NoDiscount, Policy(Rat(3, 4), 2)), Pair(Policy(Rat(3, 4), 2), NoDiscount),
      Pair(Policy(Rat(3, 4), 1), Policy(One, 1)), Pair(Policy(One, 1), Policy(RInt(50), 1)),
      Pair(NoDiscount, Policy(One, 1)), Pair(Policy(Rat(1, 2), 2), Policy(One, 2)),
      Pair(NoDiscount, NoDiscount) }

KArgs == 0..MaxK
UnitArgs == {Rat(-1, 1), Zero, Rat(1, 2), RInt(2)}
PriceArgs == {Zero, Rat(3, 2)}

(***************************************************************************)
(* Initial states: the tables hold any of the contents above; when the     *)
(* import of models failed there are no tables to read.                    *)
(***************************************************************************)
NoCall == [op |-> "none"]

ZeroResult ==
    [units_saved |-> Zero, co2e_saved |-> Zero, revenue_generated |-> Zero,
     waste_saved_kg |-> Zero]

AggIdle ==
    /\ agg_pc = "idle"
    /\ agg_args = None
    /\ inventory_items = <<>>
    /\ agg_i = 1
    /\ total_units_saved = Zero
    /\ total_co2e_saved = Zero
    /\ total_revenue = Zero
    /\ total_waste_saved_kg = Zero
    /\ items_processed = 0
    /\ items_with_units = 0
    /\ last_item = None
    /\ result = None

\* the tables at start
Tables ==
    \E sc \in Scenarios :
        /\ inventory = sc.world.inventory
        /\ product_lca = sc.world.product_lca
        /\ customers = sc.world.customers
        /\ waste_impact_ok = sc.world.waste_impact_ok
        /\ price_curves = sc.price_curves
        /\ user_stats = sc.user_stats
        /\ MODELS_AVAILABLE \in BOOLEAN
        /\ ~MODELS_AVAILABLE => sc = Scenario(WorldSound, StdCurves, OneStat)

Init ==
    /\ Tables
    /\ call = NoCall
    /\ AggIdle
    /\ unit = None
    /\ solve = None

\* a top-level call starts when no other call is in progress or unread
Idle == agg_pc = "idle" /\ call = NoCall

\* the locals of an earlier aggregation are gone
ResetAgg ==
    /\ agg_pc' = "idle"
    /\ agg_args' = None
    /\ inventory_items' = <<>>
    /\ agg_i' = 1
    /\ total_units_saved' = Zero
    /\ total_co2e_saved' = Zero
    /\ total_revenue' = Zero
    /\ total_waste_saved_kg' = Zero
    /\ items_processed' = 0
    /\ items_with_units' = 0
    /\ last_item' = None
    /\ result' = None

Returns(rec) == call' = rec /\ ResetAgg /\ UNCHANGED <<stores, walks>>

(***************************************************************************)
(* Direct calls of the functions of the estimator.                         *)
(***************************************************************************)
Call_calculate_discount_from_freshness ==
    /\ Idle
    /\ \E f \in FreshnessArgs, m \in MaxDiscounts, p \in Powers :
          Returns([op |-> "calculate_discount_from_freshness",
                   freshness_score |-> f, max_discount |-> m, power |-> p,
                   out |-> calculate_discount_from_freshness(f, m, p)])

Call_p_buy_pop_interp ==
    /\ Idle
    /\ \E d \in DiscountPcts, c \in CallProducts :
          Returns([op |-> "p_buy_pop_interp", discount_pct |-> d, category |-> c,
                   ret |-> p_buy_pop_interp(d, c)])

Call_p_buy_user_beta ==
    /\ Idle
    /\ \E u \in Users, pr \in CallProducts, d \in DiscountPcts :
          Returns([op |-> "p_buy_user_beta", user_id |-> u, product_name |-> pr,
                   discount_pct |-> d, ret |-> p_buy_user_beta(u, pr, d)])

\* prev_n, prev_w: the trial count and weight of the p_buy_blend call before
Call_p_buy_blend ==
    /\ agg_pc = "idle"
    /\ call = NoCall \/ call.op = "p_buy_blend"
    /\ \E u \in Users, pr \in CallProducts, d \in DiscountPcts :
          \E pn \in {p_buy_user_beta(u, pr, d)}, was \in {call.op = "p_buy_blend"} :
              Returns([op |-> "p_buy_blend", user_id |-> u, product_name |-> pr,
                       category |-> pr, discount_pct |-> d,
                       p_pop |-> p_buy_pop_interp(d, pr),
                       p_user |-> pn[1], n |-> pn[2],
                       w |-> IF pn[2] = 0 THEN None
                             ELSE blend_weight(pn[2], credibility_m),
                       prev_n |-> IF was THEN call.n ELSE 0,
                       prev_w |-> IF was THEN call.w ELSE None,
                       ret |-> p_buy_blend(u, pr, pr, d, credibility_m)])

Call_sold_prob_markov ==
    /\ Idle
    /\ \E f \in ChainFreshness, pol \in Policies, K \in KArgs,
          u \in Users, pr \in CallProducts :
          Returns([op |-> "sold_prob_markov", freshness |-> f, dmax |-> pol.dmax,
                   alpha |-> pol.alpha, K |-> K, user_id |-> u,
                   product_name |-> pr, category |-> pr,
                   out |-> sold_prob_markov(f, pol.dmax, pol.alpha, K, u, pr, pr)])

\* ps_dyn, ps_base: the two chain solves of the call, None when not reached
Call_estimate_units_saved ==
    /\ Idle
    /\ \E lot_id \in 1..(Len(inventory) + 1), pp \in PolicyPairs,
          u \in Users, K \in KArgs :
          \E loc \in {estimate_units_saved_locals(lot_id, pp.baseline_params,
                                                  pp.dynamic_params, u, K)} :
             Returns([op |-> "estimate_units_saved", lot_id |-> lot_id,
                      baseline_params |-> pp.baseline_params,
                      dynamic_params |-> pp.dynamic_params,
                      user_id |-> u, K |-> K,
                      current_freshness |-> loc.current_freshness,
                      ps_dyn |-> loc.ps_dyn, ps_base |-> loc.ps_base,
                      out |-> loc.out])

Call_estimate_co2e_saved ==
    /\ Idle
    /\ \E units \in UnitArgs, pr \in ProductNames :
          Returns([op |-> "estimate_co2e_saved", units_saved |-> units,
                   product_name |-> pr, out |-> estimate_co2e_saved(units, pr)])

Call_estimate_additional_revenue_generated ==
    /\ Idle
    /\ \E units \in UnitArgs, pr \in CallProducts, price \in PriceArgs :
          Returns([op |-> "estimate_additional_revenue_generated",
                   units_saved |-> units, product_name |-> pr,
                   avg_price_per_unit |-> price,
                   out |-> estimate_additional_revenue_generated(units, pr, price)])

(***************************************************************************)
(* compute_aggregate_impact                                                *)
(***************************************************************************)
\* the exponent of the default dynamic policy (1.5 in the code; the model
\* keeps exponents integral)
DefaultAlpha == 2

DefaultBaseline == Policy(Zero, 1)
DefaultDynamic == Policy(Rat(3, 4), DefaultAlpha)

UserArg(u) == [id |-> u]
AggUserArgs == {None} \cup {UserArg(u) : u \in Users}
AggPolicyArgs == {None} \cup PolicyPairs
\* store_id: 0 stands for the falsy values None and 0
AggStoreArgs == {0, 1}

\* FruitInventory.query.filter(quantity > 0)[.filter(store_id == store_id)].all()
query_inventory(store_id) ==
    SelectSeq([i \in 1..Len(inventory) |-> i],
              LAMBDA i : /\ inventory[i].quantity > 0
                         /\ (store_id # 0 => inventory[i].store_id = store_id))

\* mutant: `except ValueError` in place of `except Exception`
loop_catches_value_error(exc) == exc = "ValueError"

\* `except Exception` of the loop: every exception the body raises is caught
loop_catches(exc) == exc \in {"TypeError", "ValueError", "IndexError", "ImportError"}

Finish(res) ==
    /\ agg_pc' = "done"
    /\ result' = res

AggStart ==
    /\ Idle
    /\ \E store_id \in AggStoreArgs, user \in AggUserArgs, pp \in AggPolicyArgs :
          LET baseline == IF pp = None THEN DefaultBaseline ELSE pp.baseline_params
              dynamic == IF pp = None THEN DefaultDynamic ELSE pp.dynamic_params
              no_customer == user = None /\ customers = <<>>
              uid == IF user = None THEN customers[1] ELSE user.id
              items == query_inventory(store_id)
          IN  /\ call' = NoCall
              /\ agg_i' = 1
              /\ total_units_saved' = Zero
              /\ total_co2e_saved' = Zero
              /\ total_revenue' = Zero
              /\ total_waste_saved_kg' = Zero
              /\ items_processed' = 0
              /\ items_with_units' = 0
              /\ last_item' = None
              /\ IF ~MODELS_AVAILABLE \/ no_customer
                 THEN /\ Finish(ZeroResult)
                      /\ agg_args' = None
                      /\ inventory_items' = <<>>
                 ELSE /\ agg_args' = [store_id |-> store_id, user_id |-> uid,
                                      baseline_params |-> baseline,
                                      dynamic_params |-> dynamic]
                      /\ inventory_items' = items
                      /\ IF Len(items) = 0
                         THEN Finish(ZeroResult)
                         ELSE agg_pc' = "loop" /\ result' = None
    /\ UNCHANGED <<stores, walks>>

\* the outcome of one iteration: the exception raised and the step that
\* raised it ("weight" when the inner except replaced the weight), and the
\* lot's contribution to the four totals, None when it has none
Step(exc, step, val) == [raised |-> exc, step |-> step, val |-> val]

\* mutant: the weight of the running total instead of the lot's units
weight_of_running(item, units) ==
    IF waste_impact_ok
    THEN calculate_weight_from_quantity(item.fruit_type, RAdd(total_units_saved, units))
    ELSE RMul(RAdd(total_units_saved, units), Rat(15, 100))

\* the weight step of the loop body, with its bare except: 0.15 kg per unit
\* when utils.waste_impact cannot be imported
weight_of(item, units) ==
    IF waste_impact_ok THEN calculate_weight_from_quantity(item.fruit_type, units)
    ELSE RMul(units, Rat(15, 100))

\* mutant: a failed CO2e estimate counted as 0 while the lot still contributes
contribution_partial(item, units, co2e, price) ==
    IF price.raised # "no" THEN Step(price.raised, "revenue", None)
    ELSE IF price.val = None THEN Step("TypeError", "revenue", None)
    ELSE Step("no", "none",
              [units |-> units,
               co2e |-> IF co2e.raised # "no" THEN Zero ELSE co2e.val,
               revenue |-> estimate_additional_revenue_generated(
                               units, item.fruit_type, price.val).val,
               weight_kg |-> weight_of(item, units)])

\* the statements of the loop body after `if units > 0:`
contribution(item, units, co2e, price) ==
    IF co2e.raised # "no" THEN Step(co2e.raised, "co2e", None)
    ELSE IF price.raised # "no" THEN Step(price.raised, "revenue", None)
    ELSE IF price.val = None THEN Step("TypeError", "revenue", None)  \* units * None
    ELSE Step("no", IF waste_impact_ok THEN "none" ELSE "weight",
              [units |-> units,
               co2e |-> co2e.val,
               revenue |-> estimate_additional_revenue_generated(
                               units, item.fruit_type, price.val).val,
               weight_kg |-> weight_of(item, units)])

\* the body of the try block for one item
item_step(item, units) ==
    IF units.raised # "no" THEN Step(units.raised, "units", None)
    ELSE IF ~RLt(Zero, units.val) THEN Step("no", "none", None)
    ELSE contribution(item, units.val,
                      estimate_co2e_saved(units.val, item.fruit_type), price_of(item))

\* one iteration of `for item in inventory_items`, its try/except included
AggItem ==
    /\ agg_pc = "loop"
    /\ agg_i <= Len(inventory_items)
    /\ \E units \in {estimate_units_saved(inventory_items[agg_i],
                         agg_args.baseline_params, agg_args.dynamic_params,
                         agg_args.user_id, DefaultK)} :
       \E step \in {item_step(inventory[inventory_items[agg_i]], units)} :
          /\ last_item' = [id |-> inventory_items[agg_i], units |-> units,
                           raised |-> step.raised, step |-> step.step]
          /\ items_processed' = IF units.raised = "no" THEN items_processed + 1
                                ELSE items_processed
          /\ items_with_units' = IF units.raised = "no" /\ RLt(Zero, units.val)
                                 THEN items_with_units + 1
                                 ELSE items_with_units
          /\ IF step.raised = "no" /\ step.val # None
             THEN /\ total_units_saved' = RAdd(total_units_saved, step.val.units)
                  /\ total_co2e_saved' = RAdd(total_co2e_saved, step.val.co2e)
                  /\ total_revenue' = RAdd(total_revenue, step.val.revenue)
                  /\ total_waste_saved_kg' =
                         RAdd(total_waste_saved_kg, step.val.weight_kg)
             ELSE UNCHANGED <<total_units_saved, total_co2e_saved, total_revenue,
                              total_waste_saved_kg>>
          /\ IF step.raised = "no" \/ loop_catches(step.raised)
             THEN /\ agg_i' = agg_i + 1
                  /\ UNCHANGED <<agg_pc, result>>
             ELSE /\ agg_pc' = "raised"
                  /\ result' = None
                  /\ UNCHANGED agg_i
    /\ UNCHANGED <<stores, call, agg_args, inventory_items, walks>>

\* after the loop: round the totals and return them
AggReturn ==
    /\ agg_pc = "loop"
    /\ agg_i > Len(inventory_items)
    /\ Finish([units_saved |-> round_2(total_units_saved),
               waste_saved_kg |-> round_2(total_waste_saved_kg),
               co2e_saved |-> round_2(total_co2e_saved),
               revenue_generated |-> round_2(total_revenue)])
    /\ UNCHANGED <<stores, call, agg_args, inventory_items, agg_i,
                   total_units_saved, total_co2e_saved, total_revenue,
                   total_waste_saved_kg, items_processed, items_with_units,
                   last_item, walks>>

(***************************************************************************)
(* recompute_lot_metrics (POST /v1/metrics/recompute)                      *)
(***************************************************************************)
\* jsonify(body), status
Response(status, body) == [status |-> status, body |-> body]

\* jsonify({'error': ...}), status
ErrorResponse(status, error) == Response(status, [error |-> error])

\* the statements after the three estimates: the rounded 200 response
metrics_response(lot_id, user_id, units, co2e, revenue) ==
    IF co2e.raised # "no" THEN ErrorResponse(500, co2e.raised)
    ELSE IF revenue.raised # "no" THEN ErrorResponse(500, revenue.raised)
    ELSE Response(200,
             [lot_id |-> lot_id,
              units_saved |-> round_2(units),
              co2e_saved |-> round_2(co2e.val),
              additional_revenue_generated |-> round_2(revenue.val),
              assumptions |-> [baseline_policy |-> DefaultBaseline,
                               dynamic_policy |-> DefaultDynamic,
                               user_id_for_calculation |-> user_id]])

\* the revenue estimate from the price expression; TypeError on a NULL price
revenue_at(units, product_name, price) ==
    IF price.raised # "no" THEN price
    ELSE estimate_additional_revenue_generated(units, product_name, price.val)

\* CO2e is estimated before the price is read: its exception comes first
metrics_after_units(lot_id, inventory_item, user_id, units) ==
    IF units.raised # "no" THEN ErrorResponse(500, units.raised)
    ELSE metrics_response(lot_id, user_id, units.val,
             estimate_co2e_saved(units.val, inventory_item.fruit_type),
             revenue_at(units.val, inventory_item.fruit_type,
                        price_of(inventory_item)))

\* mutant: no check that the lot exists; inventory_item.fruit_type on None
\* ends in the handler's `except Exception`
recompute_lot_metrics_unchecked(estimator_available, lot_id, user) ==
    IF ~estimator_available THEN ErrorResponse(503, "not available")
    ELSE IF lot_id = 0 THEN ErrorResponse(400, "lot_id is required")
    ELSE IF ~MODELS_AVAILABLE THEN ErrorResponse(500, "ImportError")
    ELSE IF get_lot(lot_id) = None THEN ErrorResponse(500, "AttributeError")
    ELSE IF user = None /\ customers = <<>>
         THEN ErrorResponse(500, "No customers found")
    ELSE metrics_after_units(lot_id, get_lot(lot_id),
             IF user = None THEN customers[1] ELSE user.id,
             estimate_units_saved(lot_id, DefaultBaseline, DefaultDynamic,
                                  IF user = None THEN customers[1] ELSE user.id,
                                  DefaultK))

\* lot_id 0 stands for a missing or zero lot_id, user None for a missing or
\* zero user_id
recompute_lot_metrics(estimator_available, lot_id, user) ==
    IF ~estimator_available THEN ErrorResponse(503, "not available")
    ELSE IF lot_id = 0 THEN ErrorResponse(400, "lot_id is required")
    ELSE IF ~MODELS_AVAILABLE THEN ErrorResponse(500, "ImportError")
    ELSE IF get_lot(lot_id) = None THEN ErrorResponse(404, "not found")
    ELSE IF user = None /\ customers = <<>>
         THEN ErrorResponse(500, "No customers found")
    ELSE metrics_after_units(lot_id, get_lot(lot_id),
             IF user = None THEN customers[1] ELSE user.id,
             estimate_units_saved(lot_id, DefaultBaseline, DefaultDynamic,
                                  IF user = None THEN customers[1] ELSE user.id,
                                  DefaultK))

\* MARKOV_ESTIMATOR_AVAILABLE, set by the import of the estimator
EstimatorImports == BOOLEAN

RecomputeLotArgs == 0..(Len(inventory) + 1)

Call_recompute_lot_metrics ==
    /\ Idle
    /\ \E available \in EstimatorImports, lot_id \in RecomputeLotArgs,
          user \in AggUserArgs :
          Returns([op |-> "recompute_lot_metrics",
                   MARKOV_ESTIMATOR_AVAILABLE |-> available,
                   lot_id |-> lot_id, user |-> user,
                   response |-> recompute_lot_metrics(available, lot_id, user)])

\* the caller has taken the outcome of the last call
Done ==
    /\ agg_pc = "done" \/ agg_pc = "raised" \/ (agg_pc = "idle" /\ call # NoCall)
    /\ call' = NoCall
    /\ ResetAgg
    /\ UNCHANGED <<stores, walks>>

Next ==
    \/ Call_calculate_discount_from_freshness
    \/ Call_p_buy_pop_interp
    \/ Call_p_buy_user_beta
    \/ Call_p_buy_blend
    \/ Call_sold_prob_markov
    \/ Call_estimate_units_saved
    \/ Call_estimate_co2e_saved
    \/ Call_estimate_additional_revenue_generated
    \/ AggStart
    \/ AggItem
    \/ AggReturn
    \/ Call_recompute_lot_metrics
    \/ Done

Spec == Init /\ [][Next]_vars

(***************************************************************************)
(* Properties.                                                             *)
(***************************************************************************)
IsCall(op) == call.op = op

\* an estimate_units_saved call that reached both chain solves
UnitsSolved ==
    /\ IsCall("estimate_units_saved")
    /\ call.ps_dyn # None /\ call.ps_dyn.raised = "no"
    /\ call.ps_base # None /\ call.ps_base.raised = "no"

CallLot == inventory[call.lot_id]

\* C1: estimate_units_saved returns max(0, quantity * (p_dynamic - p_baseline))
\* and so never a negative value, for every lot, freshness, user and pair of
\* policies, also when the dynamic policy discounts less than the baseline.
C1_UnitsSavedClamped ==
    (IsCall("estimate_units_saved") /\ call.out.raised = "no") =>
        /\ RLe(Zero, call.out.val)
        /\ UnitsSolved =>
              LET delta == RMul(RInt(CallLot.quantity),
                                RSub(call.ps_dyn.val, call.ps_base.val))
              IN  IF RLe(Zero, delta) THEN call.out.val = delta
                  ELSE call.out.val = Zero

\* a dynamic policy with the smaller max discount sells less and is credited 0
C1_Witness ==
    /\ UnitsSolved
    /\ CallLot.quantity > 0
    /\ RLt(call.dynamic_params.dmax, call.baseline_params.dmax)
    /\ RLt(call.ps_dyn.val, call.ps_base.val)
    /\ call.out.val = Zero

Totals == <<total_units_saved, total_co2e_saved, total_revenue, total_waste_saved_kg>>

InLoopBody == agg_pc = "loop" /\ agg_i <= Len(inventory_items)

ResultKeys == {"units_saved", "co2e_saved", "revenue_generated", "waste_saved_kg"}

\* C2 as stated: an exception in the units, CO2e, revenue or weight step of a
\* lot never aborts the aggregation; that lot is skipped (it changes no
\* total), the loop goes on to the next lot, and the call returns a result
\* with all four totals.
C2_SkippedOnAnyException ==
    /\ [][InLoopBody =>
            /\ agg_pc' = "loop"
            /\ agg_i' = agg_i + 1
            /\ last_item'.step # "none" => Totals' = Totals]_vars
    /\ [](agg_pc # "raised")
    /\ [](agg_pc = "done" => DOMAIN result = ResultKeys)

\* C2 (amended): an exception in the units, CO2e or revenue step of a lot
\* skips that lot; an exception in the weight step is replaced by the weight
\* 0.15 kg per unit and the lot still contributes; in every case the loop
\* goes on to the next lot and the call returns a result with four totals.
C2_ExceptionNeverAborts ==
    /\ [][InLoopBody =>
            /\ agg_pc' = "loop"
            /\ agg_i' = agg_i + 1
            /\ last_item'.step \in {"units", "co2e", "revenue"} => Totals' = Totals
            /\ last_item'.step = "weight" =>
                  /\ total_units_saved' =
                        RAdd(total_units_saved, last_item'.units.val)
                  /\ total_waste_saved_kg' =
                        RAdd(total_waste_saved_kg,
                             RMul(last_item'.units.val, Rat(15, 100)))]_vars
    /\ [](agg_pc # "raised")
    /\ [](agg_pc = "done" => DOMAIN result = ResultKeys)
    /\ []((agg_pc = "done" /\ agg_args # None) => agg_i = Len(inventory_items) + 1)

\* an aggregation that returned although one lot raised, with another lot counted
C2_Witness ==
    /\ agg_pc = "done"
    /\ last_item # None
    /\ items_processed < Len(inventory_items)
    /\ RLt(Zero, total_units_saved)
    /\ result.units_saved = round_2(total_units_saved)

\* no matching personal statistics at any discount
NoPersonalStats(user_id, product_name) ==
    \A i \in 1..Len(user_stats) :
        \/ user_stats[i].user_id # user_id
        \/ user_stats[i].product_name # product_name
        \/ user_stats[i].trials = 0

NonDecreasing(seq) == \A i \in 1..(Len(seq) - 1) : RLe(seq[i], seq[i + 1])

Probabilities(seq) == \A i \in 1..Len(seq) : RLe(Zero, seq[i]) /\ RLe(seq[i], One)

Malformed(curve) ==
    \/ curve.x_discount_bins = <<>>
    \/ curve.y_pbuy = <<>>
    \/ Len(curve.x_discount_bins) # Len(curve.y_pbuy)

\* no curve, a malformed curve, or a curve over ascending bins whose buy
\* probabilities do not fall
RisingCurve(category) ==
    \/ price_curves[category] = None
    \/ Malformed(price_curves[category])
    \/ /\ NonDecreasing(price_curves[category].x_discount_bins)
       /\ NonDecreasing(price_curves[category].y_pbuy)
       /\ Probabilities(price_curves[category].y_pbuy)

SamePower == call.baseline_params.alpha = call.dynamic_params.alpha

\* C3 as stated: for fixed freshness, K, power, user and product and any
\* max_discount values m1 <= m2, the sale probability with m1 is at most the
\* sale probability with m2, with or without personal statistics.
C3_MonotoneInMaxDiscount ==
    (UnitsSolved /\ SamePower
        /\ RLe(call.baseline_params.dmax, call.dynamic_params.dmax)) =>
        RLe(call.ps_base.val, call.ps_dyn.val)

\* C3 (amended): for 0 <= m1 <= m2 <= 1, a user without personal statistics
\* for the product, and a category whose curve is absent, malformed or has
\* buy probabilities in [0, 1] that do not fall with the discount over
\* ascending bins, the sale probability with m1 is at most the sale
\* probability with m2.
C3_MonotoneForFractions ==
    (UnitsSolved /\ SamePower
        /\ RLe(Zero, call.baseline_params.dmax)
        /\ RLe(call.baseline_params.dmax, call.dynamic_params.dmax)
        /\ RLe(call.dynamic_params.dmax, One)
        /\ NoPersonalStats(call.user_id, CallLot.fruit_type)
        /\ RisingCurve(CallLot.fruit_type)) =>
        RLe(call.ps_base.val, call.ps_dyn.val)

\* a larger max discount that sells strictly more
C3_Witness ==
    /\ UnitsSolved /\ SamePower
    /\ call.K >= 2
    /\ RLt(Zero, call.baseline_params.dmax)
    /\ RLt(call.baseline_params.dmax, call.dynamic_params.dmax)
    /\ RLe(call.dynamic_params.dmax, One)
    /\ NoPersonalStats(call.user_id, CallLot.fruit_type)
    /\ price_curves[CallLot.fruit_type] # None
    /\ RisingCurve(CallLot.fruit_type)
    /\ RLt(call.ps_base.val, call.ps_dyn.val)

\* C4: sold_prob_markov never propagates an error; for the degenerate input
\* K = 0 it returns probability 0.
C4_NeverRaises ==
    IsCall("sold_prob_markov") =>
        /\ call.out.raised = "no"
        /\ call.K = 0 => call.out.val = Zero

Between(v, a, b) == (RLe(a, v) /\ RLe(v, b)) \/ (RLe(b, v) /\ RLe(v, a))

\* C6: the credibility weight w = n / (n + 15) grows strictly with the trial
\* count n, stays strictly below 1 and is exactly 1/2 at n = 15, where the
\* blend is the mean of the personal and the population probability; the
\* blend lies between the two, at (1 - w) of their distance from p_user.
C6_CredibilityWeight ==
    (IsCall("p_buy_blend") /\ call.n > 0) =>
        /\ RLt(Zero, call.w) /\ RLt(call.w, One)
        /\ call.n = 15 =>
              /\ call.w = Rat(1, 2)
              /\ RAdd(call.ret, call.ret) = RAdd(call.p_user, call.p_pop)
        /\ (call.prev_n > 0 /\ call.prev_n < call.n) => RLt(call.prev_w, call.w)
        /\ (call.prev_n > call.n) => RLt(call.w, call.prev_w)
        /\ Between(call.ret, call.p_user, call.p_pop)
        /\ RSub(call.ret, call.p_user) =
              RMul(RSub(One, call.w), RSub(call.p_pop, call.p_user))

\* a blend at 15 trials after a blend with fewer trials
C6_Witness ==
    /\ IsCall("p_buy_blend")
    /\ call.n = 15
    /\ call.prev_n > 0 /\ call.prev_n < 15
    /\ call.p_user # call.p_pop

\* the rows of the user and product whose bin contains the discount
MatchingBins(user_id, product_name, discount_pct) ==
    {i \in 1..Len(user_stats) :
        /\ user_stats[i].user_id = user_id
        /\ user_stats[i].product_name = product_name
        /\ RLe(user_stats[i].bin_low, discount_pct)
        /\ RLt(discount_pct, user_stats[i].bin_high)}

RECURSIVE TrialsOver(_)
TrialsOver(S) ==
    IF S = {} THEN 0
    ELSE LET i == CHOOSE j \in S : TRUE
         IN  user_stats[i].trials + TrialsOver(S \ {i})

RECURSIVE BuysOver(_)
BuysOver(S) ==
    IF S = {} THEN 0
    ELSE LET i == CHOOSE j \in S : TRUE
         IN  user_stats[i].buys + BuysOver(S \ {i})

CallBins == MatchingBins(call.user_id, call.product_name, call.discount_pct)

\* C7: p_buy_user_beta sums trials and buys over every row of the user and
\* product whose bin contains discount_pct, overlapping bins all counted;
\* with 0 summed trials it returns (0, 0), otherwise
\* ((buys + 1) / (trials + 2), trials).
C7_UserPosterior ==
    (IsCall("p_buy_user_beta") /\ MODELS_AVAILABLE) =>
        IF TrialsOver(CallBins) = 0 THEN call.ret = <<Zero, 0>>
        ELSE call.ret = <<Rat(BuysOver(CallBins) + 1, TrialsOver(CallBins) + 2),
                          TrialsOver(CallBins)>>

\* two overlapping bins contain the discount
C7_Witness ==
    /\ IsCall("p_buy_user_beta") /\ MODELS_AVAILABLE
    /\ Cardinality(CallBins) >= 2
    /\ call.ret[2] = 10

\* C8 as stated: for stored statistics with trials >= buys >= 0 the
\* probability returned by p_buy_user_beta is never exactly 0 and never
\* exactly 1.
C8_NeverZeroOrOne ==
    (IsCall("p_buy_user_beta") /\ MODELS_AVAILABLE) =>
        (call.ret[1] # Zero /\ call.ret[1] # One)

\* C8 (amended): when the summed trials of the matching bins are positive,
\* the probability returned by p_buy_user_beta lies strictly between 0 and 1.
C8_PosteriorStrictlyInside ==
    (IsCall("p_buy_user_beta") /\ MODELS_AVAILABLE /\ TrialsOver(CallBins) > 0) =>
        (RLt(Zero, call.ret[1]) /\ RLt(call.ret[1], One))

\* every trial of the matching bin was a buy
C8_Witness ==
    /\ IsCall("p_buy_user_beta") /\ MODELS_AVAILABLE
    /\ TrialsOver(CallBins) > 0
    /\ BuysOver(CallBins) = TrialsOver(CallBins)
    /\ RLt(call.ret[1], One)

\* min(0.9, 0.05 + 0.85 * discount_pct / 100)
LinearApproximation(discount_pct) ==
    LET line == RAdd(Rat(5, 100), RMul(Rat(85, 100), RDiv(discount_pct, RInt(100))))
    IN  IF RLe(line, Rat(9, 10)) THEN line ELSE Rat(9, 10)

CallCurve == price_curves[call.category]

\* C9 as stated: p_buy_pop_interp returns the linear approximation whenever
\* the category has no curve and whenever the stored curve is malformed.
C9_LinearWhenNoOrMalformedCurve ==
    (IsCall("p_buy_pop_interp")
        /\ (~MODELS_AVAILABLE \/ CallCurve = None \/ Malformed(CallCurve))) =>
        call.ret = LinearApproximation(call.discount_pct)

\* C9 (amended): p_buy_pop_interp returns the linear approximation whenever
\* the category has no curve, and the constant 0.05 whenever the stored
\* curve is malformed.
C9_LinearOrDefaultLow ==
    IsCall("p_buy_pop_interp") =>
        /\ (~MODELS_AVAILABLE \/ CallCurve = None) =>
              call.ret = LinearApproximation(call.discount_pct)
        /\ (MODELS_AVAILABLE /\ CallCurve # None /\ Malformed(CallCurve)) =>
              call.ret = Rat(5, 100)

\* a malformed curve at a discount where the linear approximation is higher
C9_Witness ==
    /\ IsCall("p_buy_pop_interp") /\ MODELS_AVAILABLE
    /\ CallCurve # None /\ Malformed(CallCurve)
    /\ RLt(Zero, call.discount_pct)
    /\ call.ret = Rat(5, 100)

WellFormed(curve) ==
    /\ ~Malformed(curve)
    /\ NonDecreasing(curve.x_discount_bins)

\* the value at x of the line through (x1, y1) and (x2, y2)
OnLine(x, x1, y1, x2, y2) ==
    RAdd(y1, RDiv(RMul(RSub(y2, y1), RSub(x, x1)), RSub(x2, x1)))

\* C10: for a well-formed curve p_buy_pop_interp is the piecewise-linear
\* interpolation of the control points; below the first bin it returns the
\* first probability and above the last bin the last probability.
C10_PiecewiseLinear ==
    (IsCall("p_buy_pop_interp") /\ MODELS_AVAILABLE
        /\ CallCurve # None /\ WellFormed(CallCurve)) =>
        LET bins == CallCurve.x_discount_bins
            probs == CallCurve.y_pbuy
            n == Len(bins)
            d == call.discount_pct
        IN  /\ RLt(d, bins[1]) => call.ret = probs[1]
            /\ RLt(bins[n], d) => call.ret = probs[n]
            /\ (RLe(bins[1], d) /\ RLe(d, bins[n])) =>
                  \/ d = bins[n] /\ call.ret = probs[n]
                  \/ \E i \in 1..(n - 1) :
                        /\ RLe(bins[i], d) /\ RLe(d, bins[i + 1])
                        /\ bins[i] # bins[i + 1]
                        /\ call.ret = OnLine(d, bins[i], probs[i],
                                             bins[i + 1], probs[i + 1])

\* a discount strictly inside a segment of the curve
C10_Witness ==
    /\ IsCall("p_buy_pop_interp") /\ MODELS_AVAILABLE
    /\ CallCurve # None /\ WellFormed(CallCurve)
    /\ \E i \in 1..(Len(CallCurve.x_discount_bins) - 1) :
          /\ RLt(CallCurve.x_discount_bins[i], call.discount_pct)
          /\ RLt(call.discount_pct, CallCurve.x_discount_bins[i + 1])
          /\ call.ret # CallCurve.y_pbuy[i]
          /\ call.ret # CallCurve.y_pbuy[i + 1]

\* the PriceResponseCurve invariant: discounts non-decreasing, buy
\* probabilities in [0, 1]
CurveInvariant(curve) ==
    /\ NonDecreasing(curve.x_discount_bins)
    /\ Probabilities(curve.y_pbuy)

\* the call's result is at most the result at every larger discount
PopMonotoneFromCall ==
    \A d2 \in DiscountPcts :
        RLe(call.discount_pct, d2) =>
            RLe(call.ret, p_buy_pop_interp(d2, call.category))

\* C11 as stated: for a category with no curve or with a stored curve that
\* satisfies the PriceResponseCurve invariant, and every d1 <= d2,
\* p_buy_pop_interp(d1) <= p_buy_pop_interp(d2).
C11_PopMonotone ==
    (IsCall("p_buy_pop_interp")
        /\ (CallCurve = None \/ CurveInvariant(CallCurve))) =>
        PopMonotoneFromCall

\* C11 (amended): for a category with no curve or with a stored curve that
\* satisfies the PriceResponseCurve invariant and whose buy probabilities do
\* not decrease along the control points, and every d1 <= d2,
\* p_buy_pop_interp(d1) <= p_buy_pop_interp(d2).
C11_PopMonotoneForRisingCurve ==
    (IsCall("p_buy_pop_interp")
        /\ (CallCurve = None
            \/ (CurveInvariant(CallCurve) /\ NonDecreasing(CallCurve.y_pbuy)))) =>
        PopMonotoneFromCall

\* a stored curve on which a discount inside the bins sells strictly better
\* than a discount below the first bin
C11_Witness ==
    /\ IsCall("p_buy_pop_interp") /\ MODELS_AVAILABLE
    /\ CallCurve # None /\ ~Malformed(CallCurve)
    /\ CurveInvariant(CallCurve) /\ NonDecreasing(CallCurve.y_pbuy)
    /\ RLt(call.discount_pct, CallCurve.x_discount_bins[1])
    /\ \E d2 \in DiscountPcts :
          /\ RLt(CallCurve.x_discount_bins[1], d2)
          /\ RLt(call.ret, p_buy_pop_interp(d2, call.category))

\* the max discount as a fraction: a value above 1 is a percentage
Normalized(max_discount) ==
    IF RLt(One, max_discount) THEN RDiv(max_discount, RInt(100)) ELSE max_discount

InUnitRange(x) == RLe(Zero, x) /\ RLe(x, One)

DiscountReturned ==
    IsCall("calculate_discount_from_freshness") /\ call.out.raised = "no"

\* C12: for fixed max_discount m and power p > 0 the discount does not grow
\* with the freshness over [0, 1], and it lies within [0, m] (m as a
\* fraction).
C12_DiscountFallsWithFreshness ==
    (DiscountReturned /\ call.power > 0) =>
        /\ RLe(Zero, call.out.val)
        /\ RLe(call.out.val, Normalized(call.max_discount))
        /\ RLe(call.out.val, call.max_discount)
        /\ \A f2 \in FreshnessArgs :
              (InUnitRange(f2) /\ RLe(call.freshness_score, f2)) =>
                  RLe(calculate_discount_from_freshness(
                          f2, call.max_discount, call.power).val,
                      call.out.val)

\* a discount strictly inside (0, m) that is strictly larger than the
\* discount of a fresher lot
C12_Witness ==
    /\ DiscountReturned
    /\ call.power = 2
    /\ RLt(Zero, call.freshness_score) /\ RLt(call.freshness_score, One)
    /\ RLt(Zero, call.out.val)
    /\ RLt(call.out.val, Normalized(call.max_discount))
    /\ RLt(calculate_discount_from_freshness(One, call.max_discount, call.power).val,
           call.out.val)

\* C13: the discount is 0 at freshness 1.0 and m at freshness 0.0, where m
\* is the max discount as a fraction: a max_discount above 1 is a percentage
\* and is divided by 100.
C13_DiscountAtEnds ==
    IsCall("calculate_discount_from_freshness") =>
        /\ call.freshness_score = One => call.out = Ret(Zero)
        /\ call.freshness_score = Zero =>
              call.out = Ret(IF RLt(One, call.max_discount)
                             THEN RDiv(call.max_discount, RInt(100))
                             ELSE call.max_discount)

\* a percentage max discount at freshness 0
C13_Witness ==
    /\ IsCall("calculate_discount_from_freshness")
    /\ call.freshness_score = Zero
    /\ call.max_discount = RInt(50)
    /\ call.out = Ret(Rat(1, 2))

\* C14: the discount fails with ValueError and returns no value for every
\* freshness below 0 or above 1, and succeeds for every freshness in [0, 1].
C14_FreshnessRangeChecked ==
    IsCall("calculate_discount_from_freshness") =>
        IF InUnitRange(call.freshness_score)
        THEN call.out.raised = "no" /\ call.out.val # None
        ELSE call.out = Raise("ValueError")

\* a negative freshness is refused
C14_Witness ==
    /\ IsCall("calculate_discount_from_freshness")
    /\ RLt(call.freshness_score, Zero)
    /\ call.out.raised = "ValueError"

\* an estimate_units_saved call that found its lot and read its freshness
FreshnessRead ==
    /\ IsCall("estimate_units_saved")
    /\ call.current_freshness # None
    /\ call.current_freshness.raised = "no"

\* x clamped to [0, 1]
Clamped(x) == IF RLt(x, Zero) THEN Zero ELSE IF RLt(One, x) THEN One ELSE x

\* C15: whatever freshness score is stored for a lot, the freshness that
\* estimate_units_saved hands to sold_prob_markov lies in [0, 1]: a score
\* above 1 is divided by 100, the result is clamped to [0, 1], and a lot
\* with no freshness record counts as fully fresh (1.0).
C15_FreshnessOnUnitScale ==
    FreshnessRead =>
        /\ InUnitRange(call.current_freshness.val)
        /\ CallLot.freshness = None => call.current_freshness.val = One
        /\ CallLot.freshness # None =>
              call.current_freshness.val =
                 IF RLt(One, CallLot.freshness.freshness_score)
                 THEN Clamped(RDiv(CallLot.freshness.freshness_score, RInt(100)))
                 ELSE Clamped(CallLot.freshness.freshness_score)

\* a stored score above 100 is handed on as 1
C15_Witness ==
    /\ FreshnessRead
    /\ CallLot.freshness # None
    /\ RLt(RInt(100), CallLot.freshness.freshness_score)
    /\ call.current_freshness.val = One
    /\ call.ps_dyn # None

CallLca == product_lca[call.product_name]

StoredFactors(lca) ==
    /\ lca.displacement # None
    /\ lca.mass_kg # None
    /\ lca.ef_prod_kgco2e_perkg # None
    /\ lca.ef_disposal_kgco2e_perunit # None

\* C16: when a ProductLCA row with its four factors exists for the product
\* and units_saved > 0, estimate_co2e_saved returns
\* units_saved * (displacement * mass_kg * production_ef + disposal_ef).
C16_Co2eFromLifecycleFactors ==
    (IsCall("estimate_co2e_saved") /\ MODELS_AVAILABLE
        /\ RLt(Zero, call.units_saved)
        /\ CallLca # None /\ StoredFactors(CallLca)) =>
        call.out =
           Ret(RMul(call.units_saved,
                    RAdd(RMul(CallLca.displacement,
                              RMul(CallLca.mass_kg, CallLca.ef_prod_kgco2e_perkg)),
                         CallLca.ef_disposal_kgco2e_perunit)))

\* 2 units of apple: 2 * (1 * 0.2 * 0.5 + 0.1) = 0.4
C16_Witness ==
    /\ IsCall("estimate_co2e_saved") /\ MODELS_AVAILABLE
    /\ call.units_saved = RInt(2)
    /\ CallLca # None /\ StoredFactors(CallLca)
    /\ call.out = Ret(Rat(2, 5))

\* the rows of CO2_EMISSION_FACTORS and AVERAGE_WEIGHT_PER_UNIT the products
\* of the model can hit: 'apple' (any case) and 'default'
TableEmissionFactor(product_name) ==
    IF product_name \in {"apple", "Apple"} THEN Rat(43, 100) ELSE Rat(45, 100)

TableWeight(product_name) ==
    IF product_name \in {"apple", "Apple"} THEN Rat(18, 100) ELSE Rat(15, 100)

LotCounted ==
    /\ last_item # None
    /\ last_item.raised = "no"
    /\ last_item.units.raised = "no"
    /\ RLt(Zero, last_item.units.val)

LastLot == inventory[last_item.id]

\* C18: the revenue of a lot is units_saved times the lot's current price
\* when that price is positive, and times its original price when the
\* current price is zero or negative.
C18_RevenueByPrice ==
    /\ [][(InLoopBody /\ LotCounted') =>
            total_revenue' =
               RAdd(total_revenue,
                    RMul(last_item'.units.val,
                         IF RLt(Zero, LastLot'.current_price)
                         THEN LastLot'.current_price
                         ELSE LastLot'.original_price))]_vars
    /\ [](IsCall("estimate_additional_revenue_generated") =>
             call.out = Ret(RMul(call.units_saved, call.avg_price_per_unit)))

\* a lot with current price 0 that earned revenue at its original price
C18_Witness ==
    /\ agg_pc = "loop"
    /\ LotCounted
    /\ LastLot.current_price = Zero
    /\ RLt(Zero, LastLot.original_price)
    /\ RLt(Zero, total_revenue)

\* the per-lot estimates under the arguments of the running aggregation
LotUnits(i) ==
    estimate_units_saved(i, agg_args.baseline_params, agg_args.dynamic_params,
                         agg_args.user_id, DefaultK)

LotCo2e(i) == estimate_co2e_saved(LotUnits(i).val, inventory[i].fruit_type)

LotRevenue(i) ==
    revenue_at(LotUnits(i).val, inventory[i].fruit_type, price_of(inventory[i]))

\* the lots of the query whose units, CO2e and revenue estimates all returned
\* and that saved something
ProcessedLots ==
    {i \in 1..Len(inventory) :
        /\ \E k \in 1..Len(inventory_items) : inventory_items[k] = i
        /\ LotUnits(i).raised = "no"
        /\ RLt(Zero, LotUnits(i).val)
        /\ LotCo2e(i).raised = "no"
        /\ LotRevenue(i).raised = "no"}

RECURSIVE UnitsOver(_)
UnitsOver(S) ==
    IF S = {} THEN Zero
    ELSE LET i == CHOOSE j \in S : TRUE
         IN  RAdd(LotUnits(i).val, UnitsOver(S \ {i}))

RECURSIVE Co2eOver(_)
Co2eOver(S) ==
    IF S = {} THEN Zero
    ELSE LET i == CHOOSE j \in S : TRUE
         IN  RAdd(LotCo2e(i).val, Co2eOver(S \ {i}))

RECURSIVE RevenueOver(_)
RevenueOver(S) ==
    IF S = {} THEN Zero
    ELSE LET i == CHOOSE j \in S : TRUE
         IN  RAdd(LotRevenue(i).val, RevenueOver(S \ {i}))

RECURSIVE WeightOver(_)
WeightOver(S) ==
    IF S = {} THEN Zero
    ELSE LET i == CHOOSE j \in S : TRUE
         IN  RAdd(weight_of(inventory[i], LotUnits(i).val), WeightOver(S \ {i}))

\* r is x rounded to 2 decimals: a number of hundredths nearest to x
Rounded2(r, x) ==
    /\ RMul(r, RInt(100)).den = 1
    /\ RLe(RSub(x, r), Rat(1, 200))
    /\ RLe(RSub(r, x), Rat(1, 200))

AggregateReturned == agg_pc = "done" /\ agg_args # None

DefaultPolicies ==
    /\ agg_args.baseline_params = DefaultBaseline
    /\ agg_args.dynamic_params = DefaultDynamic

\* the single-lot estimate of the one lot of the aggregation
SingleLotResponse ==
    recompute_lot_metrics(TRUE, inventory_items[1], UserArg(agg_args.user_id))

\* C19: each of the four aggregate totals is the sum, over the lots that
\* were processed without an exception, of the lot's estimate, rounded to 2
\* decimals; the aggregate over a single lot equals the single-lot estimates
\* of recompute_lot_metrics for that lot.
C19_TotalsAreSums ==
    AggregateReturned =>
        /\ Rounded2(result.units_saved, UnitsOver(ProcessedLots))
        /\ Rounded2(result.co2e_saved, Co2eOver(ProcessedLots))
        /\ Rounded2(result.revenue_generated, RevenueOver(ProcessedLots))
        /\ Rounded2(result.waste_saved_kg, WeightOver(ProcessedLots))
        /\ (Len(inventory_items) = 1 /\ DefaultPolicies
               /\ SingleLotResponse.status = 200) =>
              /\ result.units_saved = SingleLotResponse.body.units_saved
              /\ result.co2e_saved = SingleLotResponse.body.co2e_saved
              /\ result.revenue_generated =
                    SingleLotResponse.body.additional_revenue_generated

\* totals over two counted lots that had to be rounded
C19_Witness ==
    /\ AggregateReturned
    /\ Cardinality(ProcessedLots) = 2
    /\ result.units_saved # UnitsOver(ProcessedLots)
    /\ result.co2e_saved # Co2eOver(ProcessedLots)

\* an aggregation over one lot with the default policies that saved units
C19_SingleLotCase ==
    /\ AggregateReturned
    /\ Len(inventory_items) = 1 /\ DefaultPolicies
    /\ SingleLotResponse.status = 200
    /\ RLt(Zero, result.units_saved)

UnknownLot(lot_id) == lot_id \notin 1..Len(inventory)

\* C20 as stated: a direct single-lot estimate for a lot identifier that
\* does not exist is an error, not an estimate of 0, and nothing terminates
\* an aggregation.
C20_UnknownLotIsAnError ==
    /\ (IsCall("estimate_units_saved") /\ UnknownLot(call.lot_id)) =>
          call.out.raised # "no"
    /\ (IsCall("recompute_lot_metrics") /\ UnknownLot(call.lot_id)) =>
          call.response.status # 200
    /\ agg_pc # "raised"

\* C20 (amended): recompute_lot_metrics answers a lot identifier that does
\* not exist with an error response and no estimate (404 when the tables can
\* be read), estimate_units_saved itself returns 0.0 for it, and nothing
\* terminates an aggregation.
C20_UnknownLotAtTheEndpoint ==
    /\ (IsCall("recompute_lot_metrics") /\ UnknownLot(call.lot_id)) =>
          /\ call.response.status \in {400, 404, 500, 503}
          /\ DOMAIN call.response.body = {"error"}
          /\ (call.MARKOV_ESTIMATOR_AVAILABLE /\ MODELS_AVAILABLE /\ call.lot_id # 0)
                => call.response.status = 404
    /\ (IsCall("estimate_units_saved") /\ UnknownLot(call.lot_id)) =>
          call.out = Ret(Zero)
    /\ agg_pc # "raised"

\* the endpoint refused an identifier past the last lot
C20_Witness ==
    /\ IsCall("recompute_lot_metrics")
    /\ call.lot_id = Len(inventory) + 1
    /\ Len(inventory) > 0
    /\ call.response.status = 404

\* the weight estimate of a lot: its units times the table weight of its
\* fruit type, or times 0.15 kg when the tables cannot be imported
LotWeight(i) ==
    IF waste_impact_ok
    THEN RMul(LotUnits(i).val, TableWeight(inventory[i].fruit_type))
    ELSE RMul(LotUnits(i).val, Rat(15, 100))

\* what lot i adds to the four totals: a function of the lot, the stores and
\* the arguments of the call, not of the totals or of the lots before it
LotDelta(i) ==
    IF i \in ProcessedLots
    THEN <<LotUnits(i).val, LotCo2e(i).val, LotRevenue(i).val, LotWeight(i)>>
    ELSE <<Zero, Zero, Zero, Zero>>

\* the totals accumulated from the last lot of the query to lot k
RECURSIVE TotalsBackwards(_)
TotalsBackwards(k) ==
    IF k > Len(inventory_items) THEN <<Zero, Zero, Zero, Zero>>
    ELSE [c \in 1..4 |->
             RAdd(TotalsBackwards(k + 1)[c], LotDelta(inventory_items[k])[c])]

ChainCall == IsCall("sold_prob_markov") /\ call.K >= 1

\* the per-bucket buy probabilities p_1..p_K of the call
CallPs ==
    [k \in 1..call.K |->
        bucket_prob(k, call.K, call.dmax, call.alpha, call.user_id,
                    call.product_name, call.category)]

\* C22: with K = 1 the sale probability is the single-step blended
\* probability of bucket 1, at freshness 1 and discount 0, for every initial
\* freshness in [0, 1] and every policy.
C22_SingleBucket ==
    (ChainCall /\ call.K = 1) =>
        call.out = Ret(p_buy_blend(call.user_id, call.product_name, call.category,
                                   Zero, credibility_m))

\* one bucket, a stale lot and a policy that would discount it: the result
\* is the probability at discount 0, not at the lot's discount
C22_Witness ==
    /\ ChainCall /\ call.K = 1
    /\ call.freshness = Zero
    /\ RLt(Zero, call.dmax)
    /\ call.out.val = p_buy_pop_interp(Zero, call.category)
    /\ call.out.val # p_buy_pop_interp(RMul(Normalized(call.dmax), RInt(100)),
                                       call.category)

CallQ == Q_matrix(CallPs, call.K)
CallR == R_matrix(CallPs, call.K)

\* C24: in the chain of sold_prob_markov every bucket k < K goes to Sold
\* with p_k and to bucket k + 1 with 1 - p_k and nowhere else; bucket K goes
\* to Sold with p_K and to Spoiled with 1 - p_K; every row of [Q | R] sums
\* to 1 and only bucket K reaches Spoiled.
C24_ChainStructure ==
    ChainCall =>
        \A k \in 1..call.K :
            /\ CallR[k, 1] = CallPs[k]
            /\ \A j \in 1..call.K :
                  CallQ[k, j] = IF j = k + 1 THEN RSub(One, CallPs[k]) ELSE Zero
            /\ CallR[k, 2] = IF k = call.K THEN RSub(One, CallPs[k]) ELSE Zero
            /\ RAdd(RSum([j \in 1..call.K |-> CallQ[k, j]], 1, call.K),
                    RAdd(CallR[k, 1], CallR[k, 2])) = One

\* a chain of two buckets with probabilities strictly inside (0, 1)
C24_Witness ==
    /\ ChainCall /\ call.K >= 2
    /\ \A k \in 1..call.K : RLt(Zero, CallPs[k]) /\ RLt(CallPs[k], One)
    /\ CallPs[1] # CallPs[2]
    /\ call.out.raised = "no"

CallK0 == start_bucket(call.freshness, call.K)

\* C25: for K >= 1 and a freshness f in [0, 1] the starting bucket is
\* k0 = min(K, floor((1 - f) * K) + 1); it lies in 1..K, f = 1 gives
\* bucket 1, f = 0 gives bucket K, and the bucket freshness
\* 1 - (k0 - 1) / K is at least f.
C25_StartBucket ==
    (ChainCall /\ InUnitRange(call.freshness)) =>
        /\ CallK0 \in 1..call.K
        /\ \/ /\ CallK0 < call.K
              /\ RLe(RInt(CallK0 - 1), RMul(RSub(One, call.freshness), RInt(call.K)))
              /\ RLt(RMul(RSub(One, call.freshness), RInt(call.K)), RInt(CallK0))
           \/ /\ CallK0 = call.K
              /\ RLe(RInt(call.K - 1), RMul(RSub(One, call.freshness), RInt(call.K)))
        /\ call.freshness = One => CallK0 = 1
        /\ call.freshness = Zero => CallK0 = call.K
        /\ RLe(call.freshness, RSub(One, Rat(CallK0 - 1, call.K)))

\* a freshness strictly inside (0, 1) whose bucket is neither given by the
\* cap nor the first
C25_Witness ==
    /\ ChainCall /\ call.K >= 2
    /\ RLt(Zero, call.freshness) /\ RLt(call.freshness, One)
    /\ CallK0 = 2
    /\ call.out.raised = "no"

\* the probability of leaving buckets k..K unsold: the product of 1 - p_j
RECURSIVE Unsold(_, _, _)
Unsold(ps, k, K) ==
    IF k > K THEN One ELSE RMul(RSub(One, ps[k]), Unsold(ps, k + 1, K))

CallB ==
    absorbing_probs(linalg_inv(I_minus_Q(CallQ, call.K), call.K), CallR, call.K)

\* C26: for K >= 1 the value returned by sold_prob_markov, B[k0, Sold], is
\* the step-by-step walk 1 - (1 - p_k0) * ... * (1 - p_K); it lies in [0, 1]
\* and B[k0, Sold] + B[k0, Spoiled] = 1.
C26_SolveIsWalk ==
    ChainCall =>
        /\ call.out = Ret(RSub(One, Unsold(CallPs, CallK0, call.K)))
        /\ InUnitRange(call.out.val)
        /\ call.out.val = CallB[CallK0, 1]
        /\ RAdd(CallB[CallK0, 1], CallB[CallK0, 2]) = One

\* a walk over two buckets that sells with a probability above either step
C26_Witness ==
    /\ ChainCall /\ call.K >= 2
    /\ CallK0 = 1
    /\ RLt(CallPs[1], call.out.val)
    /\ RLt(CallPs[2], call.out.val)
    /\ RLt(call.out.val, One)

\* the lot of the running iteration
LoopLot == inventory_items[agg_i]

\* the units, CO2e or revenue estimate of lot i raises
LotFails(i) ==
    IF LotUnits(i).raised # "no" THEN TRUE
    ELSE /\ RLt(Zero, LotUnits(i).val)
         /\ \/ LotCo2e(i).raised # "no"
            \/ LotRevenue(i).raised # "no"

\* C28 as stated: in the aggregation loop a lot contributes to all four
\* totals or to none; when any step of the lot fails (units, CO2e, revenue or
\* weight) no total is changed by it, and a lot whose units_saved is 0 leaves
\* the four totals unchanged.
C28_AllOrNothing ==
    [][InLoopBody =>
          /\ last_item'.step \in {"units", "co2e", "revenue", "weight"} =>
                Totals' = Totals
          /\ (last_item'.units.raised = "no" /\ last_item'.units.val = Zero) =>
                Totals' = Totals]_vars

\* C28 (amended): a lot is added to all four totals in one go or to none;
\* when its units, CO2e or revenue step fails no total is changed, and a lot
\* whose units_saved is 0 leaves the totals unchanged; a failure of the
\* weight step is replaced by 0.15 kg per unit and the lot is added to all
\* four totals.
C28_AllFourOrNone ==
    [][InLoopBody =>
          /\ \/ Totals' = Totals
             \/ /\ LoopLot \in ProcessedLots
                /\ Totals' = [c \in 1..4 |-> RAdd(Totals[c], LotDelta(LoopLot)[c])]
          /\ LotFails(LoopLot) => Totals' = Totals
          /\ (LotUnits(LoopLot).raised = "no" /\ LotUnits(LoopLot).val = Zero) =>
                Totals' = Totals
          /\ (LoopLot \in ProcessedLots /\ ~waste_impact_ok) =>
                /\ total_units_saved' = RAdd(total_units_saved, LotUnits(LoopLot).val)
                /\ total_co2e_saved' = RAdd(total_co2e_saved, LotCo2e(LoopLot).val)
                /\ total_revenue' = RAdd(total_revenue, LotRevenue(LoopLot).val)
                /\ total_waste_saved_kg' =
                      RAdd(total_waste_saved_kg,
                           RMul(LotUnits(LoopLot).val, Rat(15, 100)))]_vars

\* a lot whose weight step fell back to 0.15 kg per unit and that was added
\* to the units, CO2e, revenue and weight totals
C28_Witness ==
    /\ agg_pc = "loop"
    /\ last_item # None
    /\ last_item.step = "weight"
    /\ ~waste_impact_ok
    /\ RLt(Zero, total_units_saved)
    /\ RLt(Zero, total_co2e_saved)
    /\ RLt(Zero, total_revenue)
    /\ total_waste_saved_kg = RMul(total_units_saved, Rat(15, 100))

\* C29: for every lot with quantity >= 0 the value of estimate_units_saved
\* lies in [0, quantity], both sale probabilities lying in [0, 1].
C29_UnitsWithinQuantity ==
    (/\ IsCall("estimate_units_saved")
     /\ call.out.raised = "no"
     /\ call.lot_id \in 1..Len(inventory)
     /\ CallLot.quantity >= 0) =>
        /\ RLe(Zero, call.out.val)
        /\ RLe(call.out.val, RInt(CallLot.quantity))
        /\ UnitsSolved =>
              /\ InUnitRange(call.ps_dyn.val)
              /\ InUnitRange(call.ps_base.val)

\* a lot of which some but not all units are saved, both sale probabilities
\* above one half
C29_Witness ==
    /\ UnitsSolved
    /\ call.out.raised = "no"
    /\ CallLot.quantity > 0
    /\ RLt(Zero, call.out.val)
    /\ RLt(call.out.val, RInt(CallLot.quantity))
    /\ RLt(Rat(1, 2), call.ps_base.val)
    /\ RLt(Rat(1, 2), call.ps_dyn.val)

\* the rows of the call's user and product whose bin ends at the discount
EndingBins ==
    {i \in 1..Len(user_stats) :
        /\ user_stats[i].user_id = call.user_id
        /\ user_stats[i].product_name = call.product_name
        /\ user_stats[i].bin_high = call.discount_pct}

\* C30: a UserDiscountStat bin matches a discount d exactly when
\* bin_low <= d < bin_high; a bin whose upper bound is d does not match, so
\* a user whose only bin ends at d has zero trials and p_buy_blend returns
\* the population probability.
C30_HalfOpenBins ==
    (IsCall("p_buy_blend") /\ MODELS_AVAILABLE) =>
        /\ call.n = TrialsOver(CallBins)
        /\ EndingBins \cap CallBins = {}
        /\ CallBins = {} => (call.n = 0 /\ call.ret = call.p_pop)

\* the only bin of the user ends at the queried discount and holds trials
C30_Witness ==
    /\ IsCall("p_buy_blend") /\ MODELS_AVAILABLE
    /\ Len(user_stats) = 1
    /\ EndingBins = {1}
    /\ user_stats[1].trials > 0
    /\ call.n = 0
    /\ call.ret = call.p_pop

(***************************************************************************)
(* The chain of sold_prob_markov as a state machine: one unit that starts  *)
(* in bucket k0 and moves by the transitions Q and R give a positive       *)
(* probability.  Sold and Spoiled are the columns of R; they have no row   *)
(* in Q or R.                                                              *)
(***************************************************************************)
WalkK == 4

Bucket(k) == [bucket |-> k]
Sold == [absorbed |-> "Sold"]
Spoiled == [absorbed |-> "Spoiled"]

InBucket(u) == u # None /\ DOMAIN u.at = {"bucket"}

\* p_1..p_K of the chain the unit walks
unit_ps(u) ==
    [k \in 1..u.K |->
        bucket_prob(k, u.K, u.dmax, u.alpha, u.user_id, u.product_name, u.category)]

unit_Q(u) == Q_matrix(unit_ps(u), u.K)
unit_R(u) == R_matrix(unit_ps(u), u.K)

Moved(u, to) == [u EXCEPT !.at = to, !.steps = u.steps + 1]

ChainInit ==
    /\ Tables
    /\ call = NoCall
    /\ AggIdle
    /\ solve = None
    /\ \E f \in ChainFreshness, pol \in Policies, K \in 1..WalkK,
          u \in Users, pr \in CallProducts :
          unit = [freshness |-> f, dmax |-> pol.dmax, alpha |-> pol.alpha, K |-> K,
                  user_id |-> u, product_name |-> pr, category |-> pr,
                  k0 |-> start_bucket(f, K),
                  at |-> Bucket(start_bucket(f, K)), steps |-> 0]

\* Q[k - 1, j - 1] > 0: the unit is not sold and ages into bucket j
ChainAge ==
    /\ InBucket(unit)
    /\ \E j \in 1..unit.K :
          /\ RLt(Zero, unit_Q(unit)[unit.at.bucket, j])
          /\ unit' = Moved(unit, Bucket(j))
    /\ UNCHANGED <<stores, call, agg_vars, solve>>

\* R[k - 1, 0] > 0: the unit is sold
ChainSell ==
    /\ InBucket(unit)
    /\ RLt(Zero, unit_R(unit)[unit.at.bucket, 1])
    /\ unit' = Moved(unit, Sold)
    /\ UNCHANGED <<stores, call, agg_vars, solve>>

\* R[k - 1, 1] > 0: the unit spoils
ChainSpoil ==
    /\ InBucket(unit)
    /\ RLt(Zero, unit_R(unit)[unit.at.bucket, 2])
    /\ unit' = Moved(unit, Spoiled)
    /\ UNCHANGED <<stores, call, agg_vars, solve>>

ChainNext == ChainAge \/ ChainSell \/ ChainSpoil

ChainSpec == ChainInit /\ [][ChainNext]_vars

Absorbed(u) == u # None /\ u.at \in {Sold, Spoiled}

\* C27: seen as a state machine, a unit that starts in bucket k0 is in Sold
\* or Spoiled after at most K - k0 + 1 steps, and once it is in Sold or
\* Spoiled it never leaves that state.
C27_AbsorbedInTime ==
    /\ [](unit # None =>
            /\ unit.steps <= unit.K - unit.k0 + 1
            /\ unit.steps = unit.K - unit.k0 + 1 => Absorbed(unit)
            /\ InBucket(unit) => unit.at.bucket = unit.k0 + unit.steps)
    /\ [][Absorbed(unit) => unit' = unit]_vars
    /\ [][InBucket(unit) => unit'.steps = unit.steps + 1]_vars

\* a unit that aged through every bucket from the first and spoiled at the
\* last step the bound allows
C27_Witness ==
    /\ unit # None
    /\ unit.K = WalkK
    /\ unit.k0 = 1
    /\ unit.at = Spoiled
    /\ unit.steps = unit.K - unit.k0 + 1

(***************************************************************************)
(* estimate_units_saved on one lot of 100 units with the seeded curve, no  *)
(* personal statistics, the baseline policy (0, 1), the dynamic policy     *)
(* (0.75, 1.5) and K = 48, followed row by row.                            *)
(*                                                                         *)
(* B = inv(I - Q) @ R is solved from the last row upwards:                 *)
(* B[K, Sold] = p_K and B[k, Sold] = p_k + (1 - p_k) * B[k + 1, Sold].     *)
(* The power 1.5 has no rational value: for F in [0, 1], F^2 <= F^1.5 <= F,*)
(* so the discount of a bucket lies between its discounts at power 1 and   *)
(* at power 2, and the seeded curve rises with the discount.  Every        *)
(* probability is carried as an interval [lo, hi] of multiples of          *)
(* 1 / Scale, rounded outwards.                                            *)
(***************************************************************************)
ScenarioK == 48

Scale == 10 ^ 4

ScenarioUser == 1

ScenarioFreshness == {Rat(j, 20) : j \in 0..20}

ScenarioLot(f) == Lot("apple", 100, Fresh(f), RInt(2), RInt(3), 1)

ScenarioBaseline == Policy(Zero, 1)

\* max_discount of the dynamic policy; its power 1.5 lies between 1 and 2
ScenarioDmax == Rat(3, 4)

fx_floor(x) == RFloor(RMul(x, RInt(Scale)))
fx_ceil(x) == 0 - RFloor(RNeg(RMul(x, RInt(Scale))))

Interval(lo, hi) == [lo |-> lo, hi |-> hi]

\* p_k under a policy with an integral power
scenario_prob(k, dmax, alpha) ==
    bucket_prob(k, ScenarioK, dmax, alpha, ScenarioUser, "apple", "apple")

baseline_p(k) ==
    Interval(fx_floor(scenario_prob(k, ScenarioBaseline.dmax, ScenarioBaseline.alpha)),
             fx_ceil(scenario_prob(k, ScenarioBaseline.dmax, ScenarioBaseline.alpha)))

dynamic_p(k) ==
    Interval(fx_floor(scenario_prob(k, ScenarioDmax, 1)),
             fx_ceil(scenario_prob(k, ScenarioDmax, 2)))

\* mutant: the row without the Sold column of R
sold_row_lo_product(p, b) == (p * b) \div Scale

\* p + (1 - p) * b = b + p * (1 - b), rounded down and up
sold_row_lo(p, b) == b + (p * (Scale - b)) \div Scale
sold_row_hi(p, b) == b + (p * (Scale - b) + Scale - 1) \div Scale

sold_row(p, b) == Interval(sold_row_lo(p.lo, b.lo), sold_row_hi(p.hi, b.hi))

\* max(0.0, quantity * (ps_dyn - ps_base)), in units of 1 / Scale
units_interval(quantity, dyn, base) ==
    LET lo == quantity * (dyn.lo - base.hi)
        hi == quantity * (dyn.hi - base.lo)
    IN  Interval(IF lo > 0 THEN lo ELSE 0, IF hi > 0 THEN hi ELSE 0)

ScenarioInit ==
    /\ MODELS_AVAILABLE = TRUE
    /\ price_curves = StdCurves
    /\ user_stats = <<>>
    /\ product_lca = NoLca
    /\ \E f \in ScenarioFreshness : inventory = <<ScenarioLot(f)>>
    /\ customers = <<ScenarioUser>>
    /\ waste_impact_ok = TRUE
    /\ call = NoCall
    /\ AggIdle
    /\ unit = None
    /\ solve = [pc |-> "start", lot_id |-> 1, k0 |-> 0, k |-> 0,
                base |-> Interval(0, 0), dyn |-> Interval(0, 0),
                out |-> Interval(0, 0)]

\* the lot, its freshness and the starting bucket
SolveStart ==
    /\ solve # None /\ solve.pc = "start"
    /\ \E fr \in {current_freshness_of(get_lot(solve.lot_id))} :
          solve' = [solve EXCEPT !.pc = "rows",
                                 !.k0 = start_bucket(fr.val, ScenarioK),
                                 !.k = ScenarioK + 1]
    /\ UNCHANGED <<stores, call, agg_vars, unit>>

\* row k - 1 of B for both policies
SolveRow ==
    /\ solve # None /\ solve.pc = "rows"
    /\ solve.k > solve.k0
    /\ solve' = [solve EXCEPT !.k = solve.k - 1,
                              !.base = sold_row(baseline_p(solve.k - 1), solve.base),
                              !.dyn = sold_row(dynamic_p(solve.k - 1), solve.dyn)]
    /\ UNCHANGED <<stores, call, agg_vars, unit>>

\* B[k0 - 1, 0] of both solves is known: the units saved
SolveReturn ==
    /\ solve # None /\ solve.pc = "rows"
    /\ solve.k = solve.k0
    /\ solve' = [solve EXCEPT !.pc = "done",
                              !.out = units_interval(get_lot(solve.lot_id).quantity,
                                                     solve.dyn, solve.base)]
    /\ UNCHANGED <<stores, call, agg_vars, unit>>

ScenarioNext == SolveStart \/ SolveRow \/ SolveReturn

ScenarioSpec == ScenarioInit /\ [][ScenarioNext]_vars

\* the lot of the scenario: freshness 0.2
ScenarioCase == solve # None /\ inventory = <<ScenarioLot(Rat(1, 5))>>

\* C23: in the scenario (quantity 100, freshness 0.2, curve (0, 0.05),
\* (50, 0.75), (75, 0.90), baseline (0, 1), dynamic (0.75, 1.5), K = 48, no
\* personal statistics) every bucket's probability under the baseline is the
\* curve's value at discount 0, 0.05; p_dynamic is strictly greater than
\* p_baseline; and units_saved lies strictly between 0 and 100.
C23_Scenario ==
    (ScenarioCase /\ solve.pc = "done") =>
        /\ \A k \in 1..ScenarioK :
              /\ scenario_prob(k, ScenarioBaseline.dmax, ScenarioBaseline.alpha)
                    = Rat(5, 100)
              /\ scenario_prob(k, ScenarioBaseline.dmax, ScenarioBaseline.alpha)
                    = CurveStd.y_pbuy[1]
        /\ solve.base.hi < solve.dyn.lo
        /\ 0 < solve.out.lo
        /\ solve.out.hi < 100 * Scale

\* the solve of the scenario started in bucket 39 and returned; p_baseline
\* encloses 1 - 0.95^10 = 0.40126.. and about 60 units are saved
C23_Witness ==
    /\ ScenarioCase /\ solve.pc = "done"
    /\ solve.k0 = 39
    /\ solve.base.lo <= 4012 /\ 4013 <= solve.base.hi
    /\ solve.base.hi - solve.base.lo < 50
    /\ 59 * Scale < solve.out.lo
    /\ solve.out.hi < 60 * Scale

====
